---------------------------- MODULE Spec2Model ----------------------------
(***************************************************************************)
(* PulseDJ-X: the deck playback engine (DJAudioPlayer), its control        *)
(* surface (QtDeckWidget, PerformancePads), the background load and        *)
(* analysis tasks (QtMainWindow) and the process-wide beat grid            *)
(* (GlobalBeatGrid), as state machines.                                    *)
(*                                                                         *)
(* Representation of the program's doubles:                                *)
(*  - times (positions, loop points, pause position, beat times) are       *)
(*    counted in samples of the device rate SampleRate, so that            *)
(*    "seconds * sampleRate" is the stored integer itself and the beat     *)
(*    periods used are exact;                                              *)
(*  - ratios (speed, resampling ratio) are in hundredths (Unit = 1.0);     *)
(*  - gains and knob values are in hundredths as well.                     *)
(***************************************************************************)
EXTENDS Integers, Sequences, FiniteSets, TLC

VARIABLES
    \* ---- DJAudioPlayer: source and transport
    readerTrack,        \* readerSource: "none" or the loaded track
    playing,            \* transportSource.isPlaying()
    looping,            \* looping flag of the positionable source
    pos,                \* transportSource.getCurrentPosition(), in samples
    \* ---- DJAudioPlayer: pause handling
    softPaused, forceSilent, pausedResetPending, pausedPosSec,
    \* ---- DJAudioPlayer: keylock and the stretch engine
    keylockEnabled, keylockChangePending,
    rb,                 \* the stretcher object exists (rb != nullptr)
    rbReady, rbPaddedStartDone, rbDiscardOutRemaining, rbQuality,
    keylockPrimeSamplesRemaining,
    \* ---- DJAudioPlayer: speed, gain, EQ
    currentSpeed, resampleRatio, gain, highGain, midGain, lowGain, filterKnob,
    \* ---- DJAudioPlayer: loop, scratch, device
    loopEnabled, loopStartSec, loopEndSec, scratchMode, teardown,
    loopCrossfadeActive, loopCrossfadeSamples, loopCrossfadePosition,
    dspPrepared, lastBlockSizeHint,
    \* ---- DJAudioPlayer: EQ/filter coefficients in use and the level meter
    lastHighGain, lastMidGain, lastLowGain, lastFilterKnob,
    updateCounter,      \* the static counter of processed blocks, modulo 8
    leftChannelLevel, rightChannelLevel,    \* in whole percent
    \* ---- DJAudioPlayer: quantize state
    quantizeEnabled, trackBpm, trackFirstBeatOffset, trackLengthSec,
    \* ---- the audio callback in flight
    audioPc,            \* "idle" | "claimed" (past the keylock exchange)
    blk,                \* what the last finished block did
    \* ---- QtDeckWidget of the deck
    currentFilePath,    \* "" or the path handed to loadFile
    deckPlaying,        \* QtDeckWidget::playing
    playPauseBtn, loadBtn,      \* [text, enabled]
    \* ---- QtMainWindow and BeatIndicator, the deck's side
    analysisActiveA, analysisFailedA, detectedBpm, bpmA, tempoFactorA, statusTip,
    scratchWasPlayingA,
    \* ---- GlobalBeatGrid (one instance for the process)
    currentBpm, firstBeatOffset, currentTrackLength, beatPositionsSeconds,
    \* ---- the thread pool and the main thread's queue of posted calls
    poolTasks, mainQueue,
    \* ---- history of the run (observation only)
    klUnapplied, klLost, klDouble, rbFaulted, stopMark, lastQuant,
    lastPadQuant, loadMark,
    knobsAtEntry,       \* the EQ and filter knobs as the block in flight found them
    \* ---- BpmAnalyzer: the working values of one analysis
    analysisDuration, sections, tempoBeats, quality, tempoCandidates

analyzerVars ==
    << analysisDuration, sections, tempoBeats, quality, tempoCandidates >>

engineState == << readerTrack, playing, looping, pos, softPaused, forceSilent,
                 pausedResetPending, pausedPosSec, keylockEnabled,
                 keylockChangePending, rb, rbReady, rbPaddedStartDone,
                 rbDiscardOutRemaining, rbQuality, keylockPrimeSamplesRemaining,
                 resampleRatio, scratchMode, teardown,
                 loopCrossfadeActive, loopCrossfadeSamples,
                 loopCrossfadePosition, dspPrepared, lastBlockSizeHint,
                 lastHighGain, lastMidGain, lastLowGain, lastFilterKnob,
                 updateCounter, leftChannelLevel, rightChannelLevel,
                 audioPc, blk, klUnapplied, klLost, klDouble, rbFaulted,
                 stopMark, knobsAtEntry >>

\* the engine, with the analyzer's working values that no player call touches
engineVars == << engineState, analyzerVars >>

paramVars == << currentSpeed, gain, highGain, midGain, lowGain, filterKnob >>

loopVars == << loopEnabled, loopStartSec, loopEndSec >>

quantVars == << quantizeEnabled, trackBpm, trackFirstBeatOffset, trackLengthSec >>

\* the whole DJAudioPlayer
playerVars == << engineVars, paramVars, loopVars, quantVars >>

deckVars == << currentFilePath, deckPlaying, playPauseBtn, loadBtn >>

winVars == << analysisActiveA, analysisFailedA, detectedBpm, bpmA, tempoFactorA,
              statusTip, scratchWasPlayingA >>

gridVars == << currentBpm, firstBeatOffset, currentTrackLength,
               beatPositionsSeconds >>

taskVars == << poolTasks, mainQueue >>

\* everything outside the player but the observation of quantisation
shellVars == << deckVars, winVars, gridVars, taskVars, loadMark >>

uiVars == << shellVars, lastQuant, lastPadQuant >>

vars == << playerVars, uiVars >>

-----------------------------------------------------------------------------
(* Units *)

\* 1.0 of a ratio, a gain or a knob value
Unit == 10 * 10

\* the device sample rate handed to prepareToPlay (a device input; fixed here)
SampleRate == 32 * 20

-----------------------------------------------------------------------------
(* Helpers *)

Min(a, b) == IF a < b THEN a ELSE b
Max(a, b) == IF a > b THEN a ELSE b
Abs(a) == IF a < 0 THEN -a ELSE a
Clamp(v, lo, hi) == IF v < lo THEN lo ELSE IF hi < v THEN hi ELSE v
CeilDiv(a, b) == (a + b - 1) \div b

RoundDiv(a, b) ==    \* std::round(a / b) for b > 0: halves go away from zero
    IF a >= 0 THEN (2 * a + b) \div (2 * b) ELSE -((2 * (-a) + b) \div (2 * b))

-----------------------------------------------------------------------------
(* Tracks, device blocks and the inputs the control context draws from *)

Tracks == {"long", "short"}

\* length of a track in blocks of 64 samples (bounds of the model)
LongBlocks == 8
ShortBlocks == 4
\* a track of 40 s and a clip of 10 s, for the analyzer
FullBlocks == 400
ClipBlocks == 100

TrackLen(t) ==
    IF t = "long" THEN LongBlocks * 64
    ELSE IF t \in {"short", "flat"} THEN ShortBlocks * 64
    ELSE IF t \in {"full", "slow"} THEN FullBlocks * 64
    ELSE IF t = "clip" THEN ClipBlocks * 64 ELSE 0

\* transportSource.getLengthInSeconds(), in samples
LengthInSeconds == TrackLen(readerTrack)

BlockSizes == {32, 64}
SpeedInputs == {100, 200}
SeekInputs == {0, 192}
LoopStartInputs == {0, 320}
LoopLengthInputs == {72, 128}
Qualities == {"Fast", "Quality"}

\* rb->getStartDelay(): the stretcher's start latency in samples
RbStartDelay == 64

\* keylockPrimeMs
KeylockPrimeMs == 5

\* the crossfade constants of getNextAudioBlock
MaxCrossfade == 1024
MinCrossfade == 16
PreJumpSamples == 32

NoBlock == [path |-> "none", gap |-> 0, silent |-> TRUE]

\* observation of a stop()/start() pair: "none" | "stopped" | "resumed"
NoMark == [phase |-> "none", p |-> 0]

-----------------------------------------------------------------------------
(* Pure parts of DJAudioPlayer *)

\* source samples a ResamplingAudioSource pulls for n output samples at ratio r
Consumed(n, r) == (n * r) \div Unit

\* the position after the transport delivered k source samples from p
ReadPos(p, k, isPlaying, isLooping, len) ==
    IF ~isPlaying \/ len = 0 THEN p
    ELSE IF isLooping THEN (p + k) % len
    ELSE Min(p + k, len)

\* the transport stops itself when a non-looping source runs past its end
ReadStops(p, k, isPlaying, isLooping, len) ==
    isPlaying /\ ~isLooping /\ p + k > len

\* DJAudioPlayer::quantizePosition in a time unit with ups units per second
QuantizeIn(positionSec, enabled, bpm, offset, lengthSec, ups) ==
    IF ~enabled \/ bpm <= 0 THEN positionSec
    ELSE LET beatLengthNum == 60 * ups       \* beatLengthSec = beatLengthNum / bpm
             relativePos == positionSec - offset
             beatNumber == RoundDiv(relativePos * bpm, beatLengthNum)
             quantizedPos == offset + (beatNumber * beatLengthNum) \div bpm
         IN Clamp(quantizedPos, 0, lengthSec)

\* quantizePosition with the player's own state; the engine counts in samples
quantizePosition(positionSec) ==
    QuantizeIn(positionSec, quantizeEnabled, trackBpm, trackFirstBeatOffset,
               trackLengthSec, SampleRate)

\* a plain load in place of the exchange: the slot keeps its value
LoadLeaves(old) == old

\* the value keylockChangePending.exchange(-1) leaves in the slot
ExchangeLeaves(old) == -1

\* ceil(keylockPrimeMs / 1000 * currentSampleRate)
PrimeSamples == CeilDiv(KeylockPrimeMs * SampleRate, 1000)

-----------------------------------------------------------------------------
(* Groups of variables an operation leaves alone *)

\* what the destructor has done: the steps it executed, in order
NoTeardown == [done |-> FALSE, steps |-> << >>, thrown |-> FALSE]

crossfadeVars ==
    << loopCrossfadeActive, loopCrossfadeSamples, loopCrossfadePosition >>
dspVars ==
    << lastHighGain, lastMidGain, lastLowGain, lastFilterKnob, updateCounter,
       leftChannelLevel, rightChannelLevel >>
srcV == << readerTrack, looping >>
transV == << playing, pos >>
pauseV == << softPaused, forceSilent, pausedResetPending, pausedPosSec >>
klV == << keylockEnabled, keylockChangePending >>
klHist == << klUnapplied, klLost, klDouble >>
rbV == << rb, rbReady, rbPaddedStartDone, rbDiscardOutRemaining, rbFaulted >>
devV == << dspPrepared, lastBlockSizeHint >>
audioV == << audioPc, blk >>

-----------------------------------------------------------------------------
(* DJAudioPlayer: the state after construction *)

EngineInit ==
    /\ readerTrack = "none" /\ playing = FALSE /\ looping = FALSE /\ pos = 0
    /\ softPaused = FALSE /\ forceSilent = FALSE
    /\ pausedResetPending = FALSE /\ pausedPosSec = 0
    /\ keylockEnabled = FALSE /\ keylockChangePending = -1
    /\ rb = FALSE /\ rbReady = FALSE /\ rbPaddedStartDone = FALSE
    /\ rbDiscardOutRemaining = 0 /\ rbQuality = "Quality"
    /\ keylockPrimeSamplesRemaining = 0
    /\ resampleRatio = Unit
    /\ scratchMode = FALSE /\ dspPrepared = FALSE /\ lastBlockSizeHint = 512
    /\ teardown = NoTeardown
    /\ loopCrossfadeActive = FALSE /\ loopCrossfadeSamples = 0
    /\ loopCrossfadePosition = 0
    /\ lastHighGain = 0 /\ lastMidGain = 0 /\ lastLowGain = 0
    /\ lastFilterKnob = 0 /\ updateCounter = 0
    /\ leftChannelLevel = 0 /\ rightChannelLevel = 0
    /\ knobsAtEntry = << 0, 0, 0, 0 >>
    /\ analysisDuration = 0 /\ sections = << >>
    /\ tempoBeats = << >> /\ quality = 0 /\ tempoCandidates = << >>
    /\ audioPc = "idle" /\ blk = NoBlock
    /\ klUnapplied = FALSE /\ klLost = FALSE /\ klDouble = FALSE
    /\ rbFaulted = FALSE
    /\ stopMark = NoMark

ParamInit ==
    /\ currentSpeed = Unit /\ gain = Unit
    /\ highGain = 0 /\ midGain = 0 /\ lowGain = 0 /\ filterKnob = 0

LoopInit == loopEnabled = FALSE /\ loopStartSec = 0 /\ loopEndSec = 0

QuantInit ==
    /\ quantizeEnabled = FALSE /\ trackBpm = 120
    /\ trackFirstBeatOffset = 0 /\ trackLengthSec = 0

-----------------------------------------------------------------------------
(* DJAudioPlayer: operations of the control context *)

\* reinitRubberBand with a valid sample rate: a fresh stretcher
ReinitRubberBand ==
    /\ rb' = TRUE /\ rbReady' = TRUE /\ rbPaddedStartDone' = FALSE
    /\ rbDiscardOutRemaining' = 0 /\ rbFaulted' = FALSE

\* prepareToPlay(samplesPerBlockExpected, sampleRate); the device calls it
\* while no callback is running
PrepareToPlay(n) ==
    /\ audioPc = "idle"
    /\ lastBlockSizeHint' = n /\ dspPrepared' = TRUE
    /\ ReinitRubberBand
    /\ keylockPrimeSamplesRemaining' = PrimeSamples
    /\ UNCHANGED << srcV, transV, pauseV, klV, klHist, rbQuality, resampleRatio,
                    scratchMode, teardown, crossfadeVars, dspVars, knobsAtEntry, analyzerVars, audioV, stopMark, paramVars, loopVars, quantVars, uiVars >>

\* applyLoadedSource(source, sampleRate) with a valid source
applyLoadedSource(t) ==
    /\ readerTrack' = t /\ looping' = FALSE
    /\ playing' = playing      \* stopped, source switched, restarted if it played
    /\ pos' = 0                \* setSource rewinds the new source
    /\ ReinitRubberBand
    /\ stopMark' = NoMark
    /\ UNCHANGED << pauseV, klV, klHist, rbQuality, keylockPrimeSamplesRemaining,
                    resampleRatio, scratchMode, teardown, crossfadeVars, dspVars, knobsAtEntry, analyzerVars, devV, audioV, paramVars,
                    loopVars, quantVars >>

ApplyLoadedSource(t) == applyLoadedSource(t) /\ UNCHANGED uiVars

\* a start() that rewinds: the transport is left at the top of the track
TrackStart == 0

\* start(): the position the transport is left at
StartPos ==
    LET totalLength == LengthInSeconds
        atEnd == pos * 10 >= totalLength * 10 - SampleRate
        p1 == IF atEnd THEN 0 ELSE pos
        pp == IF atEnd THEN 0 ELSE pausedPosSec
    IN IF pp > 0 /\ pp <= totalLength THEN pp ELSE p1

start ==
    /\ IF readerTrack # "none"
       THEN /\ pos' = StartPos
            /\ pausedPosSec' =
                 IF pos * 10 >= LengthInSeconds * 10 - SampleRate
                 THEN 0 ELSE pausedPosSec
            /\ looping' = TRUE
            /\ softPaused' = FALSE /\ forceSilent' = FALSE
            /\ pausedResetPending' = FALSE
            /\ playing' = TRUE
       ELSE UNCHANGED << pos, pausedPosSec, looping, softPaused, forceSilent,
                         pausedResetPending, playing >>
    /\ stopMark' = IF readerTrack # "none" /\ stopMark.phase = "stopped"
                   THEN [stopMark EXCEPT !.phase = "resumed"] ELSE NoMark
    /\ UNCHANGED << readerTrack, klV, klHist, rbV, rbQuality,
                    keylockPrimeSamplesRemaining, resampleRatio, scratchMode, teardown, crossfadeVars, dspVars, knobsAtEntry, analyzerVars,
                    devV, audioV, paramVars, loopVars, quantVars >>

Start == start /\ UNCHANGED uiVars

\* stop(): the position it records
StopRecords == pos

stop ==
    /\ softPaused' = TRUE
    /\ pausedPosSec' = StopRecords
    /\ pausedResetPending' = TRUE
    /\ stopMark' = [phase |-> "stopped", p |-> pos]
    /\ UNCHANGED << srcV, transV, forceSilent, klV, klHist, rbV, rbQuality,
                    keylockPrimeSamplesRemaining, resampleRatio, scratchMode, teardown, crossfadeVars, dspVars, knobsAtEntry, analyzerVars,
                    devV, audioV, paramVars, loopVars, quantVars >>

Stop == stop /\ UNCHANGED uiVars

\* what a quantisation leaves for observation: who snapped which position of
\* a track of which length to what
NoQuant == [by |-> "none", in |-> 0, out |-> 0, len |-> 0]

\* setPositionSeconds(secs) -> setPosition(posInSecs)
setPosition(posInSecs) ==
    /\ IF posInSecs < 0 \/ posInSecs > LengthInSeconds
       THEN UNCHANGED << pos, pausedPosSec >>
       ELSE LET finalPos == quantizePosition(posInSecs)
            IN /\ pos' = finalPos
               /\ pausedPosSec' = IF ~playing \/ softPaused
                                  THEN finalPos ELSE pausedPosSec
    /\ stopMark' = NoMark
    /\ UNCHANGED << srcV, playing, softPaused, forceSilent, pausedResetPending,
                    klV, klHist, rbV, rbQuality, keylockPrimeSamplesRemaining,
                    resampleRatio, scratchMode, teardown, crossfadeVars, dspVars, knobsAtEntry, analyzerVars, devV, audioV, paramVars,
                    loopVars, quantVars >>

\* the quantisation a seek to posInSecs performs, as observed
SeekQuant(posInSecs) ==
    IF posInSecs < 0 \/ posInSecs > LengthInSeconds \/ ~quantizeEnabled
    THEN lastQuant
    ELSE [by |-> "player", in |-> posInSecs, out |-> quantizePosition(posInSecs),
          len |-> LengthInSeconds]

SetPosition(posInSecs) ==
    /\ setPosition(posInSecs)
    /\ lastQuant' = SeekQuant(posInSecs)
    /\ UNCHANGED << shellVars, lastPadQuant >>

\* setPositionRelative(pos), pos in hundredths of the track: it quantises the
\* target, hands it to setPosition (which quantises again, or refuses a target
\* outside the track) and makes the first result the resume position
RelativeTarget(rel) == (LengthInSeconds * rel) \div Unit

setPositionRelative(rel) ==
    IF rel < 0 \/ rel > Unit
    THEN UNCHANGED playerVars
    ELSE LET finalPos == quantizePosition(RelativeTarget(rel))
             refused == finalPos < 0 \/ finalPos > LengthInSeconds
         IN /\ pos' = IF refused THEN pos ELSE quantizePosition(finalPos)
            /\ pausedPosSec' =
                 IF ~playing \/ softPaused THEN finalPos ELSE pausedPosSec
            /\ stopMark' = NoMark
            /\ UNCHANGED << srcV, playing, softPaused, forceSilent,
                            pausedResetPending, klV, klHist, rbV, rbQuality,
                            keylockPrimeSamplesRemaining, resampleRatio,
                            scratchMode, teardown, crossfadeVars, dspVars, knobsAtEntry, analyzerVars, devV, audioV, paramVars, loopVars,
                            quantVars >>

SetPositionRelative(rel) ==
    /\ setPositionRelative(rel)
    /\ lastQuant' = IF rel < 0 \/ rel > Unit \/ ~quantizeEnabled THEN lastQuant
                    ELSE [by |-> "player", in |-> RelativeTarget(rel),
                          out |-> quantizePosition(RelativeTarget(rel)),
                          len |-> LengthInSeconds]
    /\ UNCHANGED << shellVars, lastPadQuant >>

\* setSpeed(ratio): is the request stored
SpeedAccepted(ratio) == ~(ratio < 0 \/ ratio > 100 * Unit)

SetSpeed(ratio) ==
    /\ IF SpeedAccepted(ratio)
       THEN /\ currentSpeed' = ratio
            /\ resampleRatio' = IF keylockEnabled THEN Unit ELSE ratio
       ELSE UNCHANGED << currentSpeed, resampleRatio >>
    /\ UNCHANGED << srcV, transV, pauseV, klV, klHist, rbV, rbQuality,
                    keylockPrimeSamplesRemaining, scratchMode, teardown, crossfadeVars, dspVars, knobsAtEntry, analyzerVars, devV, audioV,
                    stopMark, gain, highGain, midGain, lowGain, filterKnob,
                    loopVars, quantVars, uiVars >>

\* setGain(gain): is the request handed to the transport
GainAccepted(g) == ~(g < 0 \/ g > Unit)

SetGain(g) ==
    /\ gain' = IF GainAccepted(g) THEN g ELSE gain
    /\ UNCHANGED << engineVars, currentSpeed, highGain, midGain, lowGain,
                    filterKnob, loopVars, quantVars, uiVars >>

\* setHighGain / setMidGain / setLowGain / setFilterCutoff: the value stored
KnobStored(v) == Clamp(v, -Unit, Unit)

SetHighGain(v) ==
    /\ highGain' = KnobStored(v)
    /\ UNCHANGED << engineVars, currentSpeed, gain, midGain, lowGain,
                    filterKnob, loopVars, quantVars, uiVars >>

SetMidGain(v) ==
    /\ midGain' = KnobStored(v)
    /\ UNCHANGED << engineVars, currentSpeed, gain, highGain, lowGain,
                    filterKnob, loopVars, quantVars, uiVars >>

SetLowGain(v) ==
    /\ lowGain' = KnobStored(v)
    /\ UNCHANGED << engineVars, currentSpeed, gain, highGain, midGain,
                    filterKnob, loopVars, quantVars, uiVars >>

SetFilterCutoff(v) ==
    /\ filterKnob' = KnobStored(v)
    /\ UNCHANGED << engineVars, currentSpeed, gain, highGain, midGain,
                    lowGain, loopVars, quantVars, uiVars >>

\* setKeylockEnabled(enabled): the value written to the pending slot
PendingValue(enabled) == IF enabled THEN 1 ELSE 0

SetKeylockEnabled(enabled) ==
    /\ keylockChangePending' = PendingValue(enabled)
    /\ klUnapplied' = TRUE
    /\ klLost' = (klLost \/ klUnapplied)   \* an unapplied toggle is overwritten
    /\ UNCHANGED << srcV, transV, pauseV, keylockEnabled, klDouble, rbV,
                    rbQuality, keylockPrimeSamplesRemaining, resampleRatio,
                    scratchMode, teardown, crossfadeVars, dspVars, knobsAtEntry, analyzerVars, devV, audioV, stopMark, paramVars, loopVars,
                    quantVars, uiVars >>

\* setKeylockQuality(q)
SetKeylockQuality(q) ==
    /\ q # rbQuality
    /\ rbQuality' = q
    /\ IF keylockEnabled THEN ReinitRubberBand ELSE UNCHANGED rbV
    /\ UNCHANGED << srcV, transV, pauseV, klV, klHist,
                    keylockPrimeSamplesRemaining, resampleRatio, scratchMode, teardown, crossfadeVars, dspVars, knobsAtEntry, analyzerVars,
                    devV, audioV, stopMark, paramVars, loopVars, quantVars, uiVars >>

\* enableLoop(startSec, lengthSec): the region it stores
LoopStartOf(startSec, len) == Max(0, Min(startSec, len))
LoopEndOf(startSec, lengthSec, len) ==
    Max(LoopStartOf(startSec, len),
        Min(LoopStartOf(startSec, len) + lengthSec, len))

DisableLoopEffect ==
    loopEnabled' = FALSE /\ loopStartSec' = 0 /\ loopEndSec' = 0

EnableLoopEffect(startSec, lengthSec) ==
    IF lengthSec <= 0 THEN DisableLoopEffect
    ELSE /\ loopStartSec' = LoopStartOf(startSec, LengthInSeconds)
         /\ loopEndSec' = LoopEndOf(startSec, lengthSec, LengthInSeconds)
         /\ loopEnabled' = (LoopEndOf(startSec, lengthSec, LengthInSeconds)
                              > LoopStartOf(startSec, LengthInSeconds))

EnableLoop(startSec, lengthSec) ==
    /\ EnableLoopEffect(startSec, lengthSec)
    /\ UNCHANGED << engineVars, paramVars, quantVars, uiVars >>

DisableLoop ==
    /\ DisableLoopEffect
    /\ UNCHANGED << engineVars, paramVars, quantVars, uiVars >>

\* setQuantizeEnabled(enabled)
setQuantizeEnabled(enabled) ==
    /\ quantizeEnabled' = enabled
    /\ UNCHANGED << engineVars, paramVars, loopVars, trackBpm,
                    trackFirstBeatOffset, trackLengthSec >>

\* setBeatInfo(bpm, firstBeatOffset, trackLength)
setBeatInfo(bpm, offset, trackLength) ==
    /\ trackBpm' = bpm
    /\ trackFirstBeatOffset' = offset
    /\ trackLengthSec' = trackLength
    /\ UNCHANGED << engineVars, paramVars, loopVars, quantizeEnabled >>

SetQuantizeEnabled(enabled) == setQuantizeEnabled(enabled) /\ UNCHANGED uiVars

SetBeatInfo(bpm, offset, trackLength) ==
    setBeatInfo(bpm, offset, trackLength) /\ UNCHANGED uiVars

-----------------------------------------------------------------------------
(* DJAudioPlayer::getNextAudioBlock, the audio context *)

\* an enable that arms the priming period whatever the stretcher's state
PrimeAlways(readyNow, prime) == PrimeSamples

\* the priming period a keylock enable arms (line 132: only if the stretcher
\* was not already running, which line 125 has just made true)
PrimeAfterEnable(readyNow, prime) == IF ~readyNow THEN PrimeSamples ELSE prime

\* lines 96-145: no reader -> silence; else claim the pending keylock toggle
\* with one atomic exchange and apply it
BlockBegin(n) ==
    /\ audioPc = "idle" /\ dspPrepared
    /\ IF readerTrack = "none"
       THEN /\ blk' = [path |-> "noreader", gap |-> 0, silent |-> TRUE]
            /\ UNCHANGED << audioPc, lastBlockSizeHint, klV, klHist, rbV,
                            resampleRatio >>
       ELSE /\ audioPc' = "claimed"
            /\ lastBlockSizeHint' = n
            /\ keylockChangePending' = ExchangeLeaves(keylockChangePending)
            /\ blk' = blk
            /\ IF keylockChangePending # -1
               THEN /\ keylockEnabled' = (keylockChangePending = 1)
                    /\ klDouble' = (klDouble \/ ~klUnapplied)  \* applied again
                    /\ klUnapplied' = FALSE
                    /\ klLost' = klLost
                    /\ IF keylockChangePending = 1
                       THEN /\ resampleRatio' = Unit
                            /\ IF ~rbReady
                               THEN /\ rbReady' = TRUE
                                    /\ rbPaddedStartDone' = FALSE
                                    /\ rbDiscardOutRemaining' = 0
                                    /\ UNCHANGED << rb, rbFaulted >>
                               ELSE UNCHANGED rbV
                       ELSE /\ resampleRatio' = currentSpeed
                            /\ UNCHANGED rbV
               ELSE UNCHANGED << keylockEnabled, klHist, rbV, resampleRatio >>
    /\ keylockPrimeSamplesRemaining' =
         IF readerTrack # "none" /\ keylockChangePending = 1
         THEN PrimeAfterEnable(rbReady', keylockPrimeSamplesRemaining)
         ELSE keylockPrimeSamplesRemaining
    /\ knobsAtEntry' = << highGain, midGain, lowGain, filterKnob >>
    /\ UNCHANGED << srcV, transV, pauseV, rbQuality, scratchMode, teardown,
                    crossfadeVars, dspVars, analyzerVars, dspPrepared, stopMark,
                    paramVars,
                    loopVars, quantVars, uiVars >>

\* ---- the loop engine (lines 167-387)
Straddles(n) ==
    pos < loopEndSec /\ pos + n >= loopEndSec /\ loopEndSec > loopStartSec
LateJump == pos >= loopEndSec /\ loopEndSec > loopStartSec
SamplesToLoopEnd(n) == Max(0, Min(loopEndSec - pos, n))
CrossfadeLength(n) == Min(MaxCrossfade, Min(SamplesToLoopEnd(n), n \div 2))
FullCrossfade(n) ==
    CrossfadeLength(n) >= MinCrossfade /\ SamplesToLoopEnd(n) >= CrossfadeLength(n)

\* loop paths that give the resampler the speed even under keylock
SpeedRatio == currentSpeed

\* the ratio the loop paths give the resampler
LoopRatio == IF keylockEnabled THEN Unit ELSE currentSpeed

\* which path a block takes once it is neither silenced nor stopped
LoopPath(n) ==
    IF ~loopEnabled THEN "none"
    ELSE IF loopCrossfadeActive THEN "buffered"
    ELSE IF Straddles(n) THEN (IF FullCrossfade(n) THEN "xfade" ELSE "short")
    ELSE IF LateJump THEN "late"
    ELSE "none"

\* a fade that leaves the transport where it is
StayTarget == pos

\* where the three fades send the transport: setPosition(loopStartSec)
JumpTarget == loopStartSec

\* output samples a pre-buffered crossfade still has for a block of n
SamplesToProcess(n) == Min(n, loopCrossfadeSamples - loopCrossfadePosition)

\* source samples the tail read takes before the jump
TailRead(path, n) ==
    IF path = "xfade" THEN Consumed(n, LoopRatio)
    ELSE IF path = "short" THEN Consumed(PreJumpSamples, LoopRatio)
    ELSE 0

\* output samples the head read delivers after the jump
HeadSamples(path, n) ==
    IF path = "xfade" THEN Max(CrossfadeLength(n) * 2, n) ELSE n

\* output samples a loop path writes to the device buffer
LoopWritten(path, n) ==
    IF path = "xfade"
    THEN LET fadeStartIndex == SamplesToLoopEnd(n) - CrossfadeLength(n)
             remainderStart == fadeStartIndex + CrossfadeLength(n)
         IN fadeStartIndex + CrossfadeLength(n) + Max(0, n - remainderStart)
    ELSE n

\* ---- the stretch engine (lines 389-640)
StretchPath ==
    IF ~(rbReady /\ rb) THEN "plain"
    ELSE IF keylockPrimeSamplesRemaining > 0 /\ keylockEnabled THEN "priming"
    ELSE IF ~keylockEnabled THEN "passthrough"
    ELSE IF Abs(currentSpeed - Unit) <= 1 THEN "bypass"
    ELSE "stretch"

\* the source the stretcher is fed to deliver n samples after its start delay
StretchFeed(n) ==
    LET speed == Clamp(currentSpeed, 5, 8 * Unit)
        discard == IF rbPaddedStartDone THEN rbDiscardOutRemaining ELSE RbStartDelay
    IN Consumed(n + discard, speed)

\* ---- EQ, filter and level meter (lines 662-799), in hundredths
EqThreshold == 1
FilterBypass == 15
Tolerance == 5
UpdateEvery == 8
DbMin == -60
DbMax == 0
Smoothing == 30

needsEQ == Abs(highGain) > EqThreshold \/ Abs(midGain) > EqThreshold
               \/ Abs(lowGain) > EqThreshold
needsFilter == Abs(filterKnob) > FilterBypass

\* the paths of a block that fall through to the EQ instead of returning
ReachesDsp(path) == path \in {"plain", "stretch"}

\* the knob value a set of coefficients is derived from after this block
CoeffSource(apply, knob, last) ==
    IF apply /\ Abs(knob - last) > Tolerance THEN knob ELSE last

\* a block's RMS in dB mapped to 0-100 percent
LevelPercent(db) == Clamp(((db - DbMin) * 100) \div (DbMax - DbMin), 0, 100)

\* the exponential moving average of the meter, in whole percent
Smooth(current, percent) ==
    (current * (Unit - Smoothing) + percent * Smoothing) \div Unit

\* the RMS of a block's left and right channel, in dB: a signal over full
\* scale on the left, next to silence on the right
DbInputs == { << 6, -90 >> }

PostProcess(path, leftDb, rightDb) ==
    IF ~(ReachesDsp(path) /\ dspPrepared /\ (needsEQ \/ needsFilter))
    THEN UNCHANGED dspVars
    ELSE LET counter == (updateCounter + 1) % UpdateEvery
             shouldUpdate == counter = 0
         IN /\ updateCounter' = counter
            /\ lastHighGain' = CoeffSource(needsEQ /\ shouldUpdate, highGain, lastHighGain)
            /\ lastMidGain' = CoeffSource(needsEQ /\ shouldUpdate, midGain, lastMidGain)
            /\ lastLowGain' = CoeffSource(needsEQ /\ shouldUpdate, lowGain, lastLowGain)
            /\ lastFilterKnob' =
                 CoeffSource(needsFilter /\ shouldUpdate, filterKnob, lastFilterKnob)
            /\ leftChannelLevel' = Smooth(leftChannelLevel, LevelPercent(leftDb))
            /\ rightChannelLevel' = Smooth(rightChannelLevel, LevelPercent(rightDb))

BlockRender ==
    /\ audioPc = "claimed"
    /\ audioPc' = "idle"
    /\ LET n == lastBlockSizeHint
           len == LengthInSeconds
       IN
       IF forceSilent \/ softPaused
       THEN /\ blk' = [path |-> "paused", gap |-> 0, silent |-> TRUE]
            /\ UNCHANGED << transV, pausedResetPending, rbV, resampleRatio,
                            keylockPrimeSamplesRemaining >>
       ELSE IF ~playing
       THEN /\ blk' = [path |-> "stopped", gap |-> 0, silent |-> TRUE]
            /\ pausedResetPending' = FALSE
            /\ IF pausedResetPending
               THEN /\ rbReady' = TRUE /\ rbPaddedStartDone' = FALSE
                    /\ rbDiscardOutRemaining' = 0
                    /\ UNCHANGED << rb, rbFaulted >>
               ELSE UNCHANGED rbV
            /\ UNCHANGED << transV, resampleRatio, keylockPrimeSamplesRemaining >>
       ELSE IF LoopPath(n) = "buffered"
       THEN /\ blk' = [path |-> "buffered", gap |-> n - SamplesToProcess(n),
                       silent |-> FALSE]
            /\ UNCHANGED << transV, pausedResetPending, rbV, resampleRatio,
                            keylockPrimeSamplesRemaining >>
       ELSE IF LoopPath(n) # "none"
       THEN LET path == LoopPath(n)
                tail == TailRead(path, n)
                stillPlaying == ~ReadStops(pos, tail, playing, looping, len)
                head == Consumed(HeadSamples(path, n), LoopRatio)
            IN /\ resampleRatio' = LoopRatio
               /\ pos' = ReadPos(JumpTarget, head, stillPlaying, looping, len)
               /\ playing' = (stillPlaying
                               /\ ~ReadStops(JumpTarget, head, stillPlaying, looping, len))
               /\ blk' = [path |-> path, gap |-> n - LoopWritten(path, n),
                          silent |-> FALSE]
               /\ UNCHANGED << pausedResetPending, rbV, keylockPrimeSamplesRemaining >>
       ELSE IF StretchPath = "plain"
       THEN /\ resampleRatio' = currentSpeed
            /\ pos' = ReadPos(pos, Consumed(n, currentSpeed), playing, looping, len)
            /\ playing' = ~ReadStops(pos, Consumed(n, currentSpeed), playing, looping, len)
            /\ blk' = [path |-> "plain", gap |-> 0, silent |-> FALSE]
            /\ UNCHANGED << pausedResetPending, rbV, keylockPrimeSamplesRemaining >>
       ELSE IF StretchPath = "priming"
       THEN /\ resampleRatio' = Unit
            /\ pos' = ReadPos(pos, n, playing, looping, len)
            /\ playing' = ~ReadStops(pos, n, playing, looping, len)
            /\ keylockPrimeSamplesRemaining' = keylockPrimeSamplesRemaining - n
            /\ blk' = [path |-> "priming", gap |-> 0, silent |-> TRUE]
            /\ UNCHANGED << pausedResetPending, rbV >>
       ELSE IF StretchPath = "passthrough"
       THEN /\ resampleRatio' = currentSpeed
            /\ pos' = ReadPos(pos, Consumed(n, currentSpeed), playing, looping, len)
            /\ playing' = ~ReadStops(pos, Consumed(n, currentSpeed), playing, looping, len)
            /\ blk' = [path |-> "passthrough", gap |-> 0, silent |-> FALSE]
            /\ UNCHANGED << pausedResetPending, rbV, keylockPrimeSamplesRemaining >>
       ELSE IF StretchPath = "bypass"
       THEN /\ resampleRatio' = currentSpeed
            /\ pos' = ReadPos(pos, Consumed(n, currentSpeed), playing, looping, len)
            /\ playing' = ~ReadStops(pos, Consumed(n, currentSpeed), playing, looping, len)
            /\ blk' = [path |-> "bypass", gap |-> 0, silent |-> FALSE]
            /\ UNCHANGED << pausedResetPending, rbV, keylockPrimeSamplesRemaining >>
       ELSE \* the stretcher is driven; the library call may throw
            \E throws \in BOOLEAN :
              /\ resampleRatio' = Unit
              /\ rbPaddedStartDone' = TRUE
              /\ rb' = rb
              /\ pos' = ReadPos(pos, StretchFeed(n), playing, looping, len)
              /\ playing' = ~ReadStops(pos, StretchFeed(n), playing, looping, len)
              /\ IF throws
                 THEN /\ rbReady' = FALSE /\ rbFaulted' = TRUE
                      /\ rbDiscardOutRemaining' =
                           IF rbPaddedStartDone THEN rbDiscardOutRemaining
                           ELSE RbStartDelay
                      /\ blk' = [path |-> "fault", gap |-> 0, silent |-> TRUE]
                 ELSE /\ rbReady' = rbReady /\ rbFaulted' = rbFaulted
                      /\ rbDiscardOutRemaining' = 0
                      /\ blk' = [path |-> "stretch", gap |-> 0, silent |-> FALSE]
              /\ UNCHANGED << pausedResetPending, keylockPrimeSamplesRemaining >>
    /\ LET buffered == ~(forceSilent \/ softPaused) /\ playing
                         /\ LoopPath(lastBlockSizeHint) = "buffered"
           reached == loopCrossfadePosition + SamplesToProcess(lastBlockSizeHint)
           complete == reached >= loopCrossfadeSamples
       IN /\ loopCrossfadePosition' =
               IF buffered THEN (IF complete THEN 0 ELSE reached)
               ELSE loopCrossfadePosition
          /\ loopCrossfadeActive' =
               IF buffered THEN ~complete ELSE loopCrossfadeActive
    /\ \E db \in DbInputs : PostProcess(blk'.path, db[1], db[2])
    /\ stopMark' = IF stopMark.phase = "resumed" THEN NoMark ELSE stopMark
    /\ UNCHANGED << srcV, softPaused, forceSilent, pausedPosSec, klV, klHist,
                    rbQuality, scratchMode, teardown, loopCrossfadeSamples,
                    knobsAtEntry, analyzerVars, devV,
                    paramVars, loopVars, quantVars, uiVars >>

\* releaseResources(): the device lets go of the source (no callback running)
ReleaseResources ==
    /\ audioPc = "idle" /\ dspPrepared
    /\ playing' = FALSE
    /\ rb' = FALSE /\ rbReady' = FALSE
    /\ dspPrepared' = FALSE
    /\ UNCHANGED << srcV, pos, pauseV, klV, klHist, rbPaddedStartDone,
                    rbDiscardOutRemaining, rbFaulted, rbQuality,
                    keylockPrimeSamplesRemaining, resampleRatio, scratchMode, teardown, crossfadeVars, dspVars, knobsAtEntry, analyzerVars,
                    lastBlockSizeHint, audioV, stopMark, paramVars, loopVars,
                    quantVars, uiVars >>

\* ~DJAudioPlayer(): one try block around the teardown steps; a step that
\* throws (throwAt: its number, 0 for none) ends the block, the handlers log
DestructorSteps == << "stop", "disconnect", "release", "reader", "stretch" >>

Alive == ~teardown.done

Destroy(throwAt) ==
    LET ran == IF throwAt = 0 THEN Len(DestructorSteps) ELSE throwAt - 1
    IN /\ Alive /\ audioPc = "idle"
       /\ teardown' = [done |-> TRUE, steps |-> SubSeq(DestructorSteps, 1, ran),
                       thrown |-> throwAt # 0]
       /\ playing' = IF ran >= 1 THEN FALSE ELSE playing
       /\ readerTrack' = IF ran >= 2 THEN "none" ELSE readerTrack
       /\ pos' = IF ran >= 2 THEN 0 ELSE pos
       /\ dspPrepared' = IF ran >= 3 THEN FALSE ELSE dspPrepared
       /\ rb' = IF ran >= 5 THEN FALSE ELSE rb
       /\ UNCHANGED << looping, pauseV, klV, klHist, rbReady, rbPaddedStartDone,
                       rbDiscardOutRemaining, rbFaulted, rbQuality,
                       keylockPrimeSamplesRemaining, resampleRatio, scratchMode,
                       crossfadeVars, dspVars, knobsAtEntry, analyzerVars, lastBlockSizeHint, audioV, stopMark, paramVars, loopVars,
                       quantVars, uiVars >>

-----------------------------------------------------------------------------
(* Files a deck can be asked to load, and what the analyzer finds in them *)

\* "long", "short", "full", "slow" and "clip" decode and carry a regular onset
\* train; "flat" decodes but has no onset the detectors react to; "missing"
\* cannot be opened
Files == {"long", "short", "full", "slow", "clip", "flat", "missing"}

\* formatManager.createReaderFor(file) returns a reader
Decodable(f) == f \in {"long", "short", "full", "slow", "clip", "flat"}

\* the tempo of the file's onset train (0: none), which the candidates of a
\* scanned section cluster on, and the best anchor of the grid
FileBpm(f) ==
    IF f \in {"long", "slow"} THEN 120
    ELSE IF f \in {"short", "full", "clip"} THEN 128 ELSE 0
FileAnchor(f) ==
    IF f \in {"long", "slow"} THEN 40
    ELSE IF f \in {"short", "full", "clip"} THEN 20 ELSE 0

\* 60 / bpm seconds, in samples
BeatPeriod(bpm) == (60 * SampleRate) \div bpm

\* how many tasks the pool holds and how many calls wait for the main thread
MaxTasks == 1
MaxQueue == 1

-----------------------------------------------------------------------------
(* GlobalBeatGrid *)

\* the forward loop stopping before a beat that falls on the track's end
RECURSIVE ForwardBeatsBeforeEnd(_, _, _)
ForwardBeatsBeforeEnd(beatTime, period, len) ==
    IF beatTime >= len THEN << >>
    ELSE (IF beatTime >= 0 THEN << beatTime >> ELSE << >>)
         \o ForwardBeatsBeforeEnd(beatTime + period, period, len)

\* the backward loop appending where the code inserts at the front
RECURSIVE BackwardBeatsAppended(_, _)
BackwardBeatsAppended(beatTime, period) ==
    IF beatTime >= -period /\ beatTime >= 0
    THEN << beatTime >> \o BackwardBeatsAppended(beatTime - period, period)
    ELSE << >>

RECURSIVE ForwardBeats(_, _, _)
ForwardBeats(beatTime, period, len) ==
    IF beatTime > len THEN << >>
    ELSE (IF beatTime >= 0 THEN << beatTime >> ELSE << >>)
         \o ForwardBeats(beatTime + period, period, len)

RECURSIVE BackwardBeats(_, _)
BackwardBeats(beatTime, period) ==
    IF beatTime >= -period /\ beatTime >= 0
    THEN BackwardBeats(beatTime - period, period) \o << beatTime >>
    ELSE << >>

\* updateBeatPositions(): the beat list for the stored parameters
updateBeatPositions(bpm, offset, len) ==
    IF bpm <= 0 \/ len <= 0 THEN << >>
    ELSE BackwardBeats(offset - BeatPeriod(bpm), BeatPeriod(bpm))
         \o ForwardBeats(offset, BeatPeriod(bpm), len)

\* setBeatGridParams(bpm, firstBeatOffset, trackLength)
setBeatGridParams(bpm, offset, trackLength) ==
    /\ currentBpm' = bpm
    /\ firstBeatOffset' = offset
    /\ currentTrackLength' = trackLength
    /\ beatPositionsSeconds' = updateBeatPositions(bpm, offset, trackLength)

SetBeatGridParams(bpm, offset, trackLength) ==
    /\ setBeatGridParams(bpm, offset, trackLength)
    /\ UNCHANGED << playerVars, deckVars, winVars, taskVars, loadMark,
                    lastQuant, lastPadQuant >>

GridInit ==
    /\ currentBpm = 120 /\ firstBeatOffset = 0 /\ currentTrackLength = 0
    /\ beatPositionsSeconds = << >>

-----------------------------------------------------------------------------
(* BpmAnalyzer::analyzeFile, by its outcome *)

RECURSIVE AnalyzerBeats(_, _, _)
AnalyzerBeats(t, period, totalDuration) ==
    IF t < totalDuration
    THEN << t >> \o AnalyzerBeats(t + period, period, totalDuration)
    ELSE << >>

\* BpmDSP::createScanSections(totalDuration): the windows the detectors run
\* over, by the length of the analysed audio
Seconds(n) == n * SampleRate

ScanSection(s, e) == [start |-> s, end |-> e]

SectionLength(section) == section.end - section.start

ShortTrackSections(totalDuration) ==
    LET sectionLength == (totalDuration * 4) \div 10
        overlap == (sectionLength * 2) \div 10
        proposed == [i \in 1..4 |->
                       LET from == (i - 1) * (sectionLength - overlap)
                       IN ScanSection(from,
                                      Min(from + sectionLength, totalDuration))]
    IN SelectSeq(proposed, LAMBDA x : SectionLength(x) >= Seconds(15))

MediumTrackSections(totalDuration) ==
    LET skip == Min(Seconds(25), (totalDuration * 12) \div 100)
        usableLength == totalDuration - 2 * skip
        positions == << 10, 30, 50, 70, 90 >>
        sectionLength == Seconds(35)
        proposed == [i \in 1..5 |->
                       LET center == skip + (positions[i] * usableLength) \div 100
                       IN ScanSection(Max(0, center - sectionLength \div 2),
                                      Min(totalDuration,
                                          center + sectionLength \div 2))]
    IN SelectSeq(proposed, LAMBDA x : SectionLength(x) >= Seconds(20))

LongTrackSections(totalDuration) ==
    LET skip == Min(Seconds(45), totalDuration \div 10)
        usableLength == totalDuration - 2 * skip
        positions == << 15, 30, 45, 60, 75, 90 >>
        sectionLength == Seconds(40)
        proposed == [i \in 1..6 |->
                       LET center == skip + (positions[i] * usableLength) \div 100
                       IN ScanSection(center - sectionLength \div 2,
                                      center + sectionLength \div 2)]
    IN SelectSeq(proposed,
                 LAMBDA x : x.start >= 0 /\ x.end <= totalDuration
                              /\ SectionLength(x) >= Seconds(25))

createScanSections(totalDuration) ==
    IF totalDuration <= Seconds(90) THEN ShortTrackSections(totalDuration)
    ELSE IF totalDuration <= Seconds(240) THEN MediumTrackSections(totalDuration)
    ELSE LongTrackSections(totalDuration)

\* analyzeFile, line 344: the sections of the audio that was read
CreateScanSections(totalDuration) ==
    /\ analysisDuration' = totalDuration
    /\ sections' = createScanSections(totalDuration)
    /\ UNCHANGED << engineState, paramVars, loopVars, quantVars, uiVars,
                    tempoBeats, quality, tempoCandidates >>

\* ---- BpmDSP::analyzePreciseBPM(beats, sectionQuality): beats in samples,
\* sectionQuality in tenths, tempi in hundredths of a BPM
MinBeats == 6
MinIntervals == 4
MinBpm == 40 * Unit
MaxBpm == 260 * Unit
WeightScale == 10000

RECURSIVE SumSeq(_)
SumSeq(seq) == IF seq = << >> THEN 0 ELSE Head(seq) + SumSeq(Tail(seq))

\* the inter-beat intervals between 0.23 s and 1.5 s
IntervalsOf(beats) ==
    SelectSeq([i \in 1..(Len(beats) - 1) |-> beats[i + 1] - beats[i]],
              LAMBDA x : x * 100 >= 23 * SampleRate /\ x * 100 <= 150 * SampleRate)

\* the intervals within percent of the median
AroundMedian(intervals, median, percent) ==
    SelectSeq(intervals, LAMBDA x : Abs(x - median) * 100 <= median * percent)

Filtered(intervals, median) ==
    LET strict == AroundMedian(intervals, median, 25)
        loose == IF Len(strict) < 3 THEN AroundMedian(intervals, median, 40)
                 ELSE strict
    IN IF loose = << >> THEN intervals ELSE loose

\* weight = 1 / (1 + |interval - median| * 5), scaled by WeightScale
IntervalWeight(x, median) ==
    (SampleRate * WeightScale) \div (SampleRate + 5 * Abs(x - median))

AvgInterval(filtered, median) ==
    SumSeq([i \in 1..Len(filtered) |->
              filtered[i] * IntervalWeight(filtered[i], median)])
      \div SumSeq([i \in 1..Len(filtered) |->
                    IntervalWeight(filtered[i], median)])

Harmonics(primaryBPM) ==
    << primaryBPM, primaryBPM * 2, primaryBPM \div 2, primaryBPM * 4,
       primaryBPM \div 4, (primaryBPM * 3) \div 2, (primaryBPM * 2) \div 3,
       primaryBPM * 3, primaryBPM \div 3 >>

\* while (bpm < 40) bpm *= 2; while (bpm > 260) bpm /= 2
RECURSIVE RangeCorrected(_)
RangeCorrected(bpm) ==
    IF bpm <= 0 THEN 0
    ELSE IF bpm < MinBpm THEN RangeCorrected(bpm * 2)
    ELSE IF bpm > MaxBpm THEN RangeCorrected(bpm \div 2)
    ELSE bpm

\* max(1, (int)(sectionQuality * consistency * filtered.size() / 5)), with
\* consistency = 1 / (1 + variance * 50); the squared deviations are kept
\* in units of SampleRate * SampleRate / 100
BaseVotes(filtered, avgInterval, sectionQuality) ==
    LET n == Len(filtered)
        squares == SumSeq([i \in 1..n |->
                             (filtered[i] - avgInterval) * (filtered[i] - avgInterval)])
        spread == (50 * squares * 100) \div (SampleRate * SampleRate)
    IN Max(1, (sectionQuality * n * n * 100) \div (10 * 5 * (n * 100 + spread)))

\* the harmonic weight of the i-th harmonic, in tenths
HarmonicWeight(i) ==
    IF i = 1 THEN 30 ELSE IF i <= 3 THEN 20 ELSE IF i <= 5 THEN 15 ELSE 10

NoCandidates == << >>

\* the returned list as a bag: each tempo with the number of times it is in
\* the list
analyzePreciseBPM(beats, sectionQuality) ==
    IF Len(beats) < MinBeats THEN NoCandidates
    ELSE LET intervals == SortSeq(IntervalsOf(beats), LAMBDA a, b : a < b)
         IN IF Len(intervals) < MinIntervals THEN NoCandidates
            ELSE LET median == intervals[(Len(intervals) \div 2) + 1]
                     filtered == Filtered(intervals, median)
                     avgInterval == AvgInterval(filtered, median)
                     primaryBPM == (60 * SampleRate * Unit) \div avgInterval
                     baseVotes == BaseVotes(filtered, avgInterval, sectionQuality)
                     harmonics == [i \in 1..9 |->
                                     RangeCorrected(Harmonics(primaryBPM)[i])]
                     votes == [i \in 1..9 |->
                                 Max(1, (baseVotes * HarmonicWeight(i)) \div 10)]
                     kept == { i \in 1..9 : harmonics[i] >= MinBpm
                                              /\ harmonics[i] <= MaxBpm }
                 IN [bpm \in { harmonics[i] : i \in kept } |->
                       SumSeq([i \in 1..9 |->
                                 IF i \in kept /\ harmonics[i] = bpm
                                 THEN votes[i] ELSE 0])]

\* analyzeFile, lines 441-444: one detector's beats of one section
AnalyzePreciseBPM(beats, sectionQuality) ==
    /\ tempoBeats' = beats
    /\ quality' = sectionQuality
    /\ tempoCandidates' = analyzePreciseBPM(beats, sectionQuality)
    /\ UNCHANGED << engineState, paramVars, loopVars, quantVars, uiVars,
                    analysisDuration, sections >>

\* the window BpmAnalysisTask asks for, and the part of file f it covers
MaxSecondsToAnalyze == Seconds(120)
AnalysisDuration(f) == Min(MaxSecondsToAnalyze, TrackLen(f))

\* globalCandidates.empty(): candidates come from the scanned sections only
NoBpmCandidates(f) ==
    createScanSections(AnalysisDuration(f)) = << >> \/ FileBpm(f) <= 0

\* what analyzeFile hands back for file f; gone: the file can no longer be
\* opened when the analysis runs
analyzeFile(f, gone) ==
    IF gone \/ ~Decodable(f)
    THEN [bpm |-> 0, beats |-> << >>, totalSec |-> 0, firstBeatOffset |-> 0,
          error |-> TRUE, grid |-> FALSE]
    ELSE IF NoBpmCandidates(f)
    THEN [bpm |-> 0, beats |-> << >>, totalSec |-> TrackLen(f),
          firstBeatOffset |-> 0, error |-> TRUE, grid |-> FALSE]
    ELSE LET period == BeatPeriod(FileBpm(f))
             bestAnchor == FileAnchor(f) % period
         IN [bpm |-> FileBpm(f),
             beats |-> AnalyzerBeats(bestAnchor, period, TrackLen(f)),
             totalSec |-> TrackLen(f), firstBeatOffset |-> bestAnchor,
             error |-> FALSE, grid |-> TRUE]

-----------------------------------------------------------------------------
(* PerformancePads: tempo and quantisation *)

\* BeatIndicator::getEffectiveBpmDeckA, in BPM (rounded down)
EffectiveBpm == (bpmA * tempoFactorA) \div Unit

\* getCurrentBpm()
getCurrentBpm ==
    IF EffectiveBpm > 0 THEN EffectiveBpm
    ELSE IF currentBpm > 0 THEN currentBpm ELSE 120

\* getOriginalSecondsPerBeat(): the beat length loops are measured in
getOriginalSecondsPerBeat ==
    IF currentBpm > 0 THEN BeatPeriod(currentBpm)
    ELSE IF EffectiveBpm > 0 THEN BeatPeriod(EffectiveBpm)
    ELSE SampleRate \div 2

RECURSIVE ClosestFrom(_, _, _, _)
ClosestFrom(beats, i, positionSeconds, closestBeat) ==
    IF i > Len(beats) THEN closestBeat
    ELSE IF Abs(positionSeconds - beats[i]) < Abs(positionSeconds - closestBeat)
    THEN ClosestFrom(beats, i + 1, positionSeconds, beats[i])
    ELSE ClosestFrom(beats, i + 1, positionSeconds, closestBeat)

\* quantizeToNearestBeat(positionSeconds) over a beat list and a tempo
NearestBeatIn(positionSeconds, beats, bpm) ==
    IF beats = << >>
    THEN (RoundDiv(positionSeconds * bpm, 60 * SampleRate) * 60 * SampleRate)
           \div bpm
    ELSE ClosestFrom(beats, 1, positionSeconds, beats[1])

quantizeToNearestBeat(positionSeconds) ==
    NearestBeatIn(positionSeconds, beatPositionsSeconds, getCurrentBpm)

\* what a pad's quantisation leaves for observation
PadQuant(positionSeconds) ==
    [by |-> "pads", in |-> positionSeconds,
     out |-> quantizeToNearestBeat(positionSeconds), len |-> LengthInSeconds]

\* the beat jumps on the pads the model presses
JumpBeats == {-4, 4}

-----------------------------------------------------------------------------
(* The deck widget, the main window and their tasks: state after start-up *)

Button(text, enabled) == [text |-> text, enabled |-> enabled]

\* what a load request may not change if it fails
DeckView ==
    [track |-> readerTrack, isPlaying |-> deckPlaying,
     playPause |-> playPauseBtn, load |-> loadBtn]

NoLoadMark == [phase |-> "none", file |-> "", before |-> << >>]

Task(kind, file, stage) == [kind |-> kind, file |-> file, stage |-> stage]

NoResult == [bpm |-> 0, beats |-> << >>, totalSec |-> 0, firstBeatOffset |-> 0,
             error |-> FALSE, grid |-> FALSE]

\* a call posted to the main thread
Call(call, file, result) == [call |-> call, file |-> file, result |-> result]

DeckInit ==
    /\ currentFilePath = "" /\ deckPlaying = FALSE
    /\ playPauseBtn = Button("Play", TRUE) /\ loadBtn = Button("Load", TRUE)
    /\ analysisActiveA = FALSE /\ analysisFailedA = FALSE /\ detectedBpm = 0
    /\ bpmA = 0 /\ tempoFactorA = Unit /\ statusTip = ""
    /\ scratchWasPlayingA = FALSE
    /\ GridInit
    /\ poolTasks = {} /\ mainQueue = << >>
    /\ lastQuant = NoQuant /\ lastPadQuant = NoQuant /\ loadMark = NoLoadMark

-----------------------------------------------------------------------------
(* QtDeckWidget: the handlers of the deck *)

\* loadFile(path) with the fileLoadingStarted slot of the main window
loadFile(path) ==
    /\ currentFilePath' = path
    /\ poolTasks' = IF path # ""
                    THEN poolTasks \cup {Task("load", path, "queued")}
                    ELSE poolTasks
    /\ playPauseBtn' = Button("Loading...", FALSE)
    /\ loadBtn' = Button("Loading...", FALSE)
    /\ deckPlaying' = FALSE

\* the Unload branch of onLoad
unload ==
    /\ currentFilePath' = ""
    /\ loadBtn' = [loadBtn EXCEPT !.text = "Load"]
    /\ playPauseBtn' = [playPauseBtn EXCEPT !.text = "Play"]
    /\ deckPlaying' = FALSE

\* a file dropped on the deck or sent from the library: loadFile(path)
DeckLoadFile(path) ==
    /\ Cardinality(poolTasks) < MaxTasks
    /\ Task("load", path, "queued") \notin poolTasks
    /\ loadFile(path)
    /\ loadMark' = IF Decodable(path) THEN NoLoadMark
                   ELSE [phase |-> "requested", file |-> path,
                         before |-> DeckView]
    /\ UNCHANGED << playerVars, winVars, gridVars, mainQueue,
                    lastQuant, lastPadQuant >>

\* onLoad() while the button reads Unload
OnUnload ==
    /\ loadBtn.enabled /\ loadBtn.text # "Load"
    /\ unload
    /\ stop
    /\ loadMark' = NoLoadMark
    /\ UNCHANGED << winVars, gridVars, taskVars, lastQuant,
                    lastPadQuant >>

\* onPlayPause() with a file on the deck
OnPlayPause ==
    /\ playPauseBtn.enabled /\ currentFilePath # ""
    /\ IF deckPlaying
       THEN /\ playPauseBtn' = [playPauseBtn EXCEPT !.text = "Play"]
            /\ deckPlaying' = FALSE
            /\ stop
       ELSE /\ playPauseBtn' = [playPauseBtn EXCEPT !.text = "Pause"]
            /\ deckPlaying' = TRUE
            /\ start
    /\ loadMark' = NoLoadMark
    /\ UNCHANGED << currentFilePath, loadBtn, winVars, gridVars, 
                    taskVars, lastQuant, lastPadQuant >>

\* onQuantizeToggle()
OnQuantizeToggle ==
    /\ setQuantizeEnabled(~quantizeEnabled)
    /\ UNCHANGED uiVars

\* applyTempo(factor) with the tempoFactorChanged slot of the main window
ApplyTempo(factor) ==
    LET clamped == Clamp(factor, 84, 116)
    IN /\ currentSpeed' = IF SpeedAccepted(clamped) THEN clamped
                          ELSE currentSpeed
       /\ resampleRatio' = IF ~SpeedAccepted(clamped) THEN resampleRatio
                           ELSE IF keylockEnabled THEN Unit ELSE clamped
       /\ tempoFactorA' = IF clamped <= 0 THEN Unit ELSE clamped
       /\ UNCHANGED << srcV, transV, pauseV, klV, klHist, rbV, rbQuality,
                       keylockPrimeSamplesRemaining, scratchMode, teardown, crossfadeVars, dspVars, knobsAtEntry, analyzerVars, devV, audioV,
                       stopMark, gain, highGain, midGain, lowGain, filterKnob,
                       loopVars, quantVars, deckVars, scratchWasPlayingA, analysisActiveA,
                       analysisFailedA, detectedBpm, bpmA, statusTip, gridVars,
                       taskVars, lastQuant, lastPadQuant, loadMark >>

-----------------------------------------------------------------------------
(* PerformancePads: the pad handlers *)

\* onPadPressed(idx) in jump mode: triggerJump
PadJump(beats) ==
    LET delta == beats * BeatPeriod(getCurrentBpm)
        rawTarget == Max(0, Min(pos + delta, LengthInSeconds))
        target == IF quantizeEnabled THEN quantizeToNearestBeat(rawTarget)
                  ELSE rawTarget
    IN /\ readerTrack # "none"
       /\ setPosition(target)
       /\ lastQuant' = SeekQuant(target)
       /\ lastPadQuant' = IF quantizeEnabled THEN PadQuant(rawTarget)
                          ELSE lastPadQuant
       /\ UNCHANGED shellVars

-----------------------------------------------------------------------------
(* The thread pool: AudioFileLoadTask and BpmAnalysisTask *)

\* AudioFileLoadTask::run: decode, then post the outcome to the main thread
LoadTaskRun ==
    \E t \in poolTasks :
        /\ t.kind = "load"
        /\ Len(mainQueue) < MaxQueue
        /\ poolTasks' = poolTasks \ {t}
        /\ mainQueue' = Append(mainQueue,
                               Call(IF Decodable(t.file) THEN "loaded"
                                    ELSE "loadFailed", t.file, NoResult))
        /\ UNCHANGED << playerVars, deckVars, winVars, gridVars, 
                        lastQuant, lastPadQuant, loadMark >>

\* BpmAnalysisTask::run up to the call of analyzeFile: post the start notice
AnalysisBegin ==
    \E t \in poolTasks :
        /\ t.kind = "analysis" /\ t.stage = "queued"
        /\ Len(mainQueue) < MaxQueue
        /\ poolTasks' = (poolTasks \ {t})
                          \cup {Task("analysis", t.file, "running")}
        /\ mainQueue' = Append(mainQueue, Call("analysisStart", t.file, NoResult))
        /\ UNCHANGED << playerVars, deckVars, winVars, gridVars, 
                        lastQuant, lastPadQuant, loadMark >>

\* BpmAnalysisTask::run from analyzeFile on: the analyzer writes the global
\* grid from the worker if it found a tempo, then the result is posted (the
\* error notice of a failed run is folded into the result call, which sets
\* the same flags)
AnalysisFinish ==
    \E t \in poolTasks, gone \in BOOLEAN :
        LET r == analyzeFile(t.file, gone)
        IN /\ t.kind = "analysis" /\ t.stage = "running"
           /\ Len(mainQueue) < MaxQueue
           /\ poolTasks' = poolTasks \ {t}
           /\ IF r.grid
              THEN setBeatGridParams(r.bpm,
                                     IF r.firstBeatOffset > 0
                                     THEN r.firstBeatOffset ELSE 0,
                                     r.totalSec)
              ELSE UNCHANGED gridVars
           /\ mainQueue' = Append(mainQueue, Call("analysisResult", t.file, r))
           /\ UNCHANGED << playerVars, deckVars, winVars, 
                           lastQuant, lastPadQuant, loadMark >>

\* the same task for a file of deck B (isDeckA false): the analyzer writes the
\* one global grid; what it posts goes to deck B's own fields and, through
\* the overview's setBeats, to the global grid again with the same values
DeckBAnalysisFinish(f) ==
    LET r == analyzeFile(f, FALSE)
    IN /\ IF r.grid
          THEN setBeatGridParams(r.bpm,
                                 IF r.firstBeatOffset > 0
                                 THEN r.firstBeatOffset ELSE 0,
                                 r.totalSec)
          ELSE UNCHANGED gridVars
       /\ UNCHANGED << playerVars, deckVars, winVars, taskVars, lastQuant,
                       lastPadQuant, loadMark >>

-----------------------------------------------------------------------------
(* The main thread takes the posted calls in order *)

HeadCall(call) == mainQueue # << >> /\ Head(mainQueue).call = call

\* the call a successful AudioFileLoadTask posted: applyLoadedSource, then
\* onFileLoadingComplete with the fileLoaded slot of the main window
LoadApplied ==
    /\ HeadCall("loaded")
    /\ LET filePath == Head(mainQueue).file
       IN /\ applyLoadedSource(filePath)
          /\ IF currentFilePath = filePath
             THEN /\ playPauseBtn' = Button("Play", TRUE)
                  /\ loadBtn' = Button("Unload", TRUE)
                  /\ poolTasks' = poolTasks
                                    \cup {Task("analysis", filePath, "queued")}
             ELSE UNCHANGED << playPauseBtn, loadBtn, poolTasks >>
    /\ mainQueue' = Tail(mainQueue)
    /\ loadMark' = NoLoadMark
    /\ UNCHANGED << currentFilePath, deckPlaying, winVars, gridVars, 
                    lastQuant, lastPadQuant >>

\* the call a failed AudioFileLoadTask posted: the status tip and nothing else
LoadFailed ==
    /\ HeadCall("loadFailed")
    /\ statusTip' = "Failed to load audio file"
    /\ mainQueue' = Tail(mainQueue)
    /\ loadMark' = IF loadMark.phase = "requested"
                      /\ loadMark.file = Head(mainQueue).file
                   THEN [loadMark EXCEPT !.phase = "failed"] ELSE loadMark
    /\ UNCHANGED << playerVars, deckVars, scratchWasPlayingA, analysisActiveA, analysisFailedA,
                    detectedBpm, bpmA, tempoFactorA, gridVars, 
                    poolTasks, lastQuant, lastPadQuant >>

\* the start notice of a BpmAnalysisTask
AnalysisStarted ==
    /\ HeadCall("analysisStart")
    /\ statusTip' = "Analyzing BPM"
    /\ analysisActiveA' = TRUE /\ analysisFailedA' = FALSE
    /\ mainQueue' = Tail(mainQueue)
    /\ UNCHANGED << playerVars, deckVars, scratchWasPlayingA, detectedBpm, bpmA, tempoFactorA,
                    gridVars, poolTasks, lastQuant, lastPadQuant,
                    loadMark >>

\* WaveformDisplay::setBeats(rel) after setOriginalBpm(bpm, totalSec): the
\* parameters it hands to the global grid
BeatsOffset(beats, totalSec) == beats[1]

\* the result call of a BpmAnalysisTask: handleBpmAnalysisResult, then the
\* status tip and the analysis flags
AnalysisResult ==
    /\ HeadCall("analysisResult")
    /\ LET r == Head(mainQueue).result
       IN /\ detectedBpm' = r.bpm
          /\ setBeatInfo(r.bpm, r.firstBeatOffset, r.totalSec)
          /\ bpmA' = IF r.bpm > 0 THEN r.bpm ELSE bpmA
          /\ IF r.totalSec > 0 /\ r.beats # << >>
             THEN setBeatGridParams(r.bpm, BeatsOffset(r.beats, r.totalSec),
                                    r.totalSec)
             ELSE UNCHANGED gridVars
          /\ analysisFailedA' = (r.bpm <= 0)
    /\ statusTip' = "Analysis complete"
    /\ analysisActiveA' = FALSE
    /\ mainQueue' = Tail(mainQueue)
    /\ UNCHANGED << deckVars, scratchWasPlayingA, tempoFactorA, poolTasks, lastQuant,
                    lastPadQuant, loadMark >>

-----------------------------------------------------------------------------
(* The deck engine, keylock and stretch engine in focus: control context   *)
(* and audio context interleaved on one loaded deck                        *)

Init == EngineInit /\ ParamInit /\ LoopInit /\ QuantInit /\ DeckInit

Next ==
    \/ PrepareToPlay(64)
    \/ ApplyLoadedSource("short")
    \/ Start
    \/ Stop
    \/ \E p \in SeekInputs : SetPosition(p)
    \/ \E r \in SpeedInputs : SetSpeed(r)
    \/ \E b \in BOOLEAN : SetKeylockEnabled(b)
    \/ \E q \in Qualities : SetKeylockQuality(q)
    \/ BlockBegin(64)
    \/ BlockRender
    \/ ReleaseResources

Spec == Init /\ [][Next]_vars

-----------------------------------------------------------------------------
(* The deck engine, transport and loop in focus *)

NextTransport ==
    \/ PrepareToPlay(64)
    \/ \E t \in Tracks : ApplyLoadedSource(t)
    \/ Start
    \/ \E r \in SpeedInputs : SetSpeed(r)
    \/ SetKeylockEnabled(TRUE)
    \/ \E s \in LoopStartInputs, l \in LoopLengthInputs : EnableLoop(s, l)
    \/ DisableLoop
    \/ \E n \in BlockSizes : BlockBegin(n)
    \/ BlockRender

SpecTransport == Init /\ [][NextTransport]_vars

-----------------------------------------------------------------------------
(* The mixer parameters in focus: arbitrary requests to the setters *)

SpeedRequests == {-50, 0, 50, 100, 10000, 10050}
GainRequests == {-50, 0, 50, 100, 150}
KnobRequests == {-150, -100, 0, 100, 150}

NextParams ==
    \/ \E r \in SpeedRequests : SetSpeed(r)
    \/ \E g \in GainRequests : SetGain(g)
    \/ \E v \in KnobRequests : SetHighGain(v)
    \/ \E v \in KnobRequests : SetMidGain(v)
    \/ \E v \in KnobRequests : SetLowGain(v)
    \/ \E v \in KnobRequests : SetFilterCutoff(v)

SpecParams == Init /\ [][NextParams]_vars

-----------------------------------------------------------------------------
(* The player's seeks and its beat information in focus: the beat          *)
(* information is whatever the last analysis delivered, of this track or   *)
(* of the one before it                                                    *)

BpmInputs == {0, 120, 128}
OffsetInputs == {0, 40}
LengthInputs == {256, 400, 512}
RelativeInputs == {0, 50, 98, 100}

NextSeek ==
    \/ \E t \in Tracks : ApplyLoadedSource(t)
    \/ \E b \in BpmInputs, o \in OffsetInputs, l \in LengthInputs :
          SetBeatInfo(b, o, l)
    \/ \E e \in BOOLEAN : SetQuantizeEnabled(e)
    \/ \E p \in SeekInputs : SetPosition(p)
    \/ \E r \in RelativeInputs : SetPositionRelative(r)

SpecSeek == Init /\ [][NextSeek]_vars

-----------------------------------------------------------------------------
(* The life of a player in focus: it is prepared, loaded, played and       *)
(* released, and destroyed once                                            *)

ThrowInputs == 0..Len(DestructorSteps)

NextLife ==
    \/ Alive /\ PrepareToPlay(64)
    \/ Alive /\ ApplyLoadedSource("short")
    \/ Alive /\ Start
    \/ Alive /\ Stop
    \/ Alive /\ BlockBegin(64)
    \/ Alive /\ BlockRender
    \/ Alive /\ ReleaseResources
    \/ \E k \in ThrowInputs : Destroy(k)

SpecLife == Init /\ [][NextLife]_vars

-----------------------------------------------------------------------------
(* The beat grid in focus: parameters of any sign and size arrive          *)

GridBpmInputs == {-120, 0, 100, 120, 128, 150}
GridOffsetInputs == {-40, 0, 20, 320, 600, 1700}
GridLengthInputs == {-64, 0, 512, 1600}

NextGrid ==
    \E b \in GridBpmInputs, o \in GridOffsetInputs, l \in GridLengthInputs :
        SetBeatGridParams(b, o, l)

SpecGrid == Init /\ [][NextGrid]_vars

-----------------------------------------------------------------------------
(* The deck, its loads and analyses in focus *)

DropInputs == {"full", "clip", "flat", "missing"}
TempoInputs == {92, 100}

NextDeck ==
    \/ \E f \in DropInputs : DeckLoadFile(f)
    \/ OnUnload
    \/ OnPlayPause
    \/ \E t \in TempoInputs : ApplyTempo(t)
    \/ LoadTaskRun
    \/ AnalysisBegin
    \/ AnalysisFinish
    \/ LoadApplied
    \/ LoadFailed
    \/ AnalysisStarted
    \/ AnalysisResult

SpecDeck == Init /\ [][NextDeck]_vars

-----------------------------------------------------------------------------
(* Two decks in focus: deck A loads, is analysed and jumps by beats while  *)
(* deck B's tracks are analysed                                            *)

DeckBInputs == {"slow"}
FarJumps == {32}

NextDecks ==
    \/ DeckLoadFile("full")
    \/ LoadTaskRun
    \/ LoadApplied
    \/ AnalysisBegin
    \/ AnalysisFinish
    \/ AnalysisStarted
    \/ AnalysisResult
    \/ OnQuantizeToggle
    \/ \E b \in FarJumps : PadJump(b)
    \/ \E f \in DeckBInputs : DeckBAnalysisFinish(f)

SpecDecks == Init /\ [][NextDecks]_vars

-----------------------------------------------------------------------------
(* Quantised seeks and jumps in focus, on tracks too short for the         *)
(* analyzer to scan                                                        *)

NextQuant ==
    \/ \E f \in Tracks : DeckLoadFile(f)
    \/ LoadTaskRun
    \/ LoadApplied
    \/ AnalysisBegin
    \/ AnalysisFinish
    \/ AnalysisStarted
    \/ AnalysisResult
    \/ OnQuantizeToggle
    \/ \E p \in SeekInputs : SetPosition(p)
    \/ \E b \in JumpBeats : PadJump(b)

SpecQuant == Init /\ [][NextQuant]_vars

-----------------------------------------------------------------------------
(* Properties of the keylock handoff, pause/resume, the loop engine and    *)
(* the stretch engine                                                      *)

\* a step of the audio callback: it claims the pending toggle / it renders
ClaimStep == audioPc = "idle" /\ audioPc' = "claimed"
RenderStep == audioPc = "claimed" /\ audioPc' = "idle"

\* C1, as stated: every toggle requested through setKeylockEnabled is applied
\* (exactly once), i.e. no requested toggle is overwritten before a block
\* claimed it.
C1_EveryToggleApplied == ~klLost

\* C1, amended: a setKeylockEnabled call changes nothing but the pending slot;
\* keylockEnabled changes only in the step of getNextAudioBlock that claims the
\* slot; that step leaves the slot at -1 and applies the value it claimed; and
\* no claimed value is applied by a second block.
C1_ClaimedToggleAppliedOnce ==
    /\ [][keylockChangePending' # keylockChangePending /\ ~ClaimStep
            => UNCHANGED << keylockEnabled, resampleRatio, rbV >>]_vars
    /\ [][keylockEnabled' # keylockEnabled => ClaimStep]_vars
    /\ [][ClaimStep => keylockChangePending' = -1]_vars
    /\ [][ClaimStep /\ keylockChangePending # -1
            => /\ keylockEnabled' = (keylockChangePending = 1)
               /\ resampleRatio' = (IF keylockChangePending = 1
                                    THEN Unit ELSE currentSpeed)
               /\ ~klUnapplied']_vars
    /\ [][~klDouble']_vars

\* C1, witness: one toggle was overwritten and the later enable was claimed
\* and applied by the block in flight
C1_Witness ==
    klLost /\ ~klUnapplied /\ keylockEnabled /\ audioPc = "claimed"
    /\ keylockChangePending = -1

\* C2: stop() soft-pauses and records the position p without touching the
\* transport; while the pause lasts (no seek, no load) the position stays p
\* whatever blocks are rendered; and start() from a pause at p with
\* 0 < p < length - 0.1 s clears softPaused and forceSilent and leaves the
\* transport playing at p.
C2_StopStartResumesAtP ==
    /\ [][Stop => softPaused' /\ pausedPosSec' = pos /\ UNCHANGED << pos, playing >>]_vars
    /\ [][stopMark'.phase = "stopped" => softPaused' /\ pos' = stopMark'.p]_vars
    /\ [][(Start /\ readerTrack # "none" /\ stopMark.phase = "stopped"
            /\ 0 < stopMark.p
            /\ stopMark.p * 10 < LengthInSeconds * 10 - SampleRate)
            => /\ pos' = stopMark.p
               /\ ~softPaused' /\ ~forceSilent' /\ playing']_vars

\* C2, witness: a playing deck was stopped at p inside the track, a block was
\* rendered silent during the pause, and start() has resumed it at p
C2_Witness ==
    /\ stopMark.phase = "resumed" /\ 0 < stopMark.p
    /\ stopMark.p * 10 < LengthInSeconds * 10 - SampleRate
    /\ blk.path = "paused" /\ playing /\ ~softPaused /\ pos = stopMark.p

\* a rendered block that straddles the loop end
StraddleBlock ==
    /\ RenderStep /\ ~(forceSilent \/ softPaused) /\ playing
    /\ loopEnabled /\ Straddles(lastBlockSizeHint)

C4_NoStretchAfterFault ==
    rbFaulted => ~rbReady /\ blk.path \notin {"stretch", "bypass", "passthrough", "priming"}

\* C5: the step that applies a keylock toggle never re-arms the priming
\* period and never takes a ready adapter out of service, and once priming
\* has run out no block is output as priming silence.
C5_ReenableNeverReprimes ==
    /\ [][ClaimStep => /\ keylockPrimeSamplesRemaining' = keylockPrimeSamplesRemaining
                       /\ (rbReady => rbReady')]_vars
    /\ [][RenderStep /\ keylockPrimeSamplesRemaining <= 0
            => blk'.path # "priming"]_vars

\* C5, witness: priming ran under keylock, keylock was switched off (the last
\* block passed through) and the block in flight has applied the re-enable
C5_Witness ==
    /\ keylockEnabled /\ audioPc = "claimed" /\ blk.path = "passthrough"
    /\ keylockPrimeSamplesRemaining < 0 /\ rbReady


-----------------------------------------------------------------------------
(* Properties of loading, analysis, the mixer parameters, the loop region  *)
(* and quantisation                                                        *)

\* C6: once the failure of a load request has been reported, the player holds
\* the track it held before the request and the deck's play state and its
\* Play and Load buttons are as they were before the request.
C6_FailedLoadChangesNothing ==
    loadMark.phase = "failed" => DeckView = loadMark.before

\* no analysis is queued, running or waiting to deliver its result
NoAnalysisInFlight ==
    /\ \A t \in poolTasks : t.kind # "analysis"
    /\ \A i \in 1..Len(mainQueue) :
         mainQueue[i].call \notin {"analysisStart", "analysisResult"}

\* C7: when the deck is marked analysis-failed and no analysis is in flight,
\* the detected BPM is 0 and the global beat grid holds no beat.
C7_FailedAnalysisLeavesGridEmpty ==
    analysisFailedA /\ ~analysisActiveA /\ NoAnalysisInFlight
        => detectedBpm = 0 /\ beatPositionsSeconds = << >>

\* C8: whatever the setters were asked, the speed factor is above 0, the gain
\* is within [0, 1] and the EQ gains and the filter knob are within [-1, 1].
C8_ParametersInRange ==
    /\ currentSpeed > 0
    /\ 0 <= gain /\ gain <= Unit
    /\ \A k \in {highGain, midGain, lowGain, filterKnob} :
         -Unit <= k /\ k <= Unit

\* C9: an enabled loop has 0 <= loopStartSec < loopEndSec <= the length of the
\* track the player holds.
C9_LoopWithinTrack ==
    loopEnabled => /\ 0 <= loopStartSec /\ loopStartSec < loopEndSec
                   /\ loopEndSec <= LengthInSeconds

\* C10: a position quantised from within [0, track length], by the player or by
\* the pads, lies within [0, track length] of the loaded track.
C10_QuantizedWithinTrack ==
    \A q \in {lastQuant, lastPadQuant} :
        q.by # "none" /\ 0 <= q.in /\ q.in <= q.len
            => 0 <= q.out /\ q.out <= q.len


-----------------------------------------------------------------------------
(* Properties of quantisation, the beat grid and the analysis hand-over    *)

\* C11: quantising a position of the loaded track twice gives what quantising
\* it once gives, whatever beat information the player holds.
C11_QuantizeIdempotent ==
    \A t \in 0..LengthInSeconds :
      quantizePosition(quantizePosition(t)) = quantizePosition(t)

\* the grid holds parameters from which beats are derived
GridDerived == currentBpm > 0 /\ currentTrackLength > 0

\* C12: for bpm > 0 and track length > 0 the beat list is strictly increasing
\* with every two consecutive beats exactly one beat period (60/bpm) apart;
\* for bpm <= 0 or track length <= 0 the list is empty.
C12_EvenlySpacedOrEmpty ==
    /\ GridDerived =>
         /\ BeatPeriod(currentBpm) > 0
         /\ \A i \in 1..(Len(beatPositionsSeconds) - 1) :
              beatPositionsSeconds[i + 1] - beatPositionsSeconds[i]
                = BeatPeriod(currentBpm)
    /\ ~GridDerived => beatPositionsSeconds = << >>

\* beats before and after the first-beat offset, and a list of three or more
C12_Witness ==
    /\ GridDerived
    /\ Len(beatPositionsSeconds) >= 3
    /\ beatPositionsSeconds[2] < firstBeatOffset
    /\ beatPositionsSeconds[Len(beatPositionsSeconds)] > firstBeatOffset

\* the spec's example: 128 BPM, first beat at 0.5 s, track of 2.5 s
ExampleGrid ==
    currentBpm = 128 /\ firstBeatOffset = SampleRate \div 2
      /\ currentTrackLength = (5 * SampleRate) \div 2

\* t lies on the grid through the first-beat offset
OnGrid(t) == (t - firstBeatOffset) % BeatPeriod(currentBpm) = 0

BeatSet == { beatPositionsSeconds[i] : i \in 1..Len(beatPositionsSeconds) }

\* C13 as stated: the beats are firstBeatOffset + k*(60/bpm) for k >= 0 only:
\* the first is the first-beat offset, the last is within the track, and the
\* example grid has the five beats 0.5, 0.969, 1.438, 1.906, 2.375 s.
C13_BeatsStartAtOffset ==
    /\ GridDerived /\ 0 <= firstBeatOffset /\ beatPositionsSeconds # << >> =>
         /\ beatPositionsSeconds[1] = firstBeatOffset
         /\ beatPositionsSeconds[Len(beatPositionsSeconds)] <= currentTrackLength
    /\ ExampleGrid => beatPositionsSeconds = << 320, 620, 920, 1220, 1520 >>

\* C13: the beats are exactly the grid times firstBeatOffset + k*(60/bpm), k of
\* either sign, that are >= 0 and, from the first-beat offset on, within the
\* track; the example grid has six beats, 0.031 s before the five listed.
C13_BeatsOnGridFromZero ==
    /\ GridDerived =>
         BeatSet = { t \in 0..Max(currentTrackLength, firstBeatOffset) :
                       /\ OnGrid(t)
                       /\ t < firstBeatOffset \/ t <= currentTrackLength }
    /\ ExampleGrid => beatPositionsSeconds = << 20, 320, 620, 920, 1220, 1520 >>

C13_Witness == ExampleGrid /\ Len(beatPositionsSeconds) = 6

\* the results the analyzer has posted for a file it could open
PostedResults(f) ==
    { mainQueue[i].result : i \in { j \in 1..Len(mainQueue) :
          /\ mainQueue[j].call = "analysisResult"
          /\ mainQueue[j].file = f
          /\ mainQueue[j].result.totalSec > 0 } }

\* C14: the analysis of the 10 s clip with a regular 128 BPM onset train finds
\* at least one scan section, reports a BPM within +-1 of 128 and a non-empty
\* beat list that reaches from the first to the last beat period of the clip.
C14_ClipIsAnalysed ==
    \A r \in PostedResults("clip") :
        /\ createScanSections(AnalysisDuration("clip")) # << >>
        /\ Abs(r.bpm - 128) <= 1
        /\ r.beats # << >>
        /\ r.beats[1] < BeatPeriod(128)
        /\ r.beats[Len(r.beats)] > r.totalSec - BeatPeriod(128)

\* the place of a step among the steps the destructor executed, 0 if it did not
StepAt(step) ==
    IF \E i \in 1..Len(teardown.steps) : teardown.steps[i] = step
    THEN CHOOSE i \in 1..Len(teardown.steps) : teardown.steps[i] = step
    ELSE 0

\* C15: a destroyed player has executed transport-stop, disconnect source,
\* release stretch engine and release reader, in this order, whether or not a
\* step has thrown.
C15_TeardownInOrder ==
    teardown.done =>
        /\ 0 < StepAt("stop")
        /\ StepAt("stop") < StepAt("disconnect")
        /\ StepAt("disconnect") < StepAt("stretch")
        /\ StepAt("stretch") < StepAt("reader")

\* a step of a thread-pool worker: a load task or an analysis task runs
WorkerStep == LoadTaskRun \/ AnalysisBegin \/ AnalysisFinish

\* C16: no step of a worker thread writes the beat grid or the deck's BPM
\* fields; they change only when the control context applies a queued result.
C16_WorkersLeaveGridAlone ==
    [][WorkerStep => UNCHANGED << gridVars, detectedBpm, bpmA, trackBpm,
                                 trackFirstBeatOffset, trackLengthSec >>]_vars

\* the result at the head of the main thread's queue is for a file that is no
\* longer the deck's file
LateResult ==
    HeadCall("analysisResult") /\ Head(mainQueue).file # currentFilePath

\* C17: applying the result of an analysis whose track has been unloaded or
\* replaced changes neither the deck's BPM, its first-beat offset and track
\* length, the beat grid nor the analysis status.
C17_LateResultDiscarded ==
    [][LateResult /\ AnalysisResult
         => UNCHANGED << detectedBpm, bpmA, trackBpm, trackFirstBeatOffset,
                         trackLengthSec, gridVars, analysisFailedA >>]_vars

\* positions of deck A's track the pads and the player are asked to quantise
ProbePositions == {0, 3 * SampleRate, LengthInSeconds}

\* deck A holds a track whose analysis has delivered a tempo
DeckAAnalysed ==
    /\ readerTrack # "none" /\ readerTrack = currentFilePath
    /\ detectedBpm > 0 /\ ~analysisActiveA /\ NoAnalysisInFlight

\* a step of deck B: one of its tracks is analysed
DeckBStep == \E f \in DeckBInputs : DeckBAnalysisFinish(f)

\* C18: once deck A's track is analysed, what deck A's pads and deck A's player
\* quantise a position to, and the beat length deck A's loops are measured
\* in, are the same before and after any step of deck B.
C18_DeckBLeavesDeckAQuantisation ==
    [][DeckAAnalysed /\ DeckBStep =>
         /\ \A p \in ProbePositions :
              /\ NearestBeatIn(p, beatPositionsSeconds', getCurrentBpm')
                   = quantizeToNearestBeat(p)
              /\ quantizePosition(p)' = quantizePosition(p)
         /\ getOriginalSecondsPerBeat' = getOriginalSecondsPerBeat]_vars

-----------------------------------------------------------------------------
(* Properties of a single block: the keylock exchange and the loop engine  *)

\* getNextAudioBlock is entered
BlockEntered == \E n \in BlockSizes : BlockBegin(n)

LoopFades == {"xfade", "short", "late"}

\* a block that reaches the loop engine: neither silenced nor stopped, with
\* the loop enabled
LoopBlock ==
    /\ RenderStep /\ ~(forceSilent \/ softPaused) /\ playing /\ loopEnabled

\* C20: a block rendered with the loop enabled takes exactly one of the four
\* outcomes, each decided by the position before the block: the full crossfade
\* when the block straddles loopEnd with room for a fade, the short fade when
\* it straddles without room, the late-jump fade when the position is already
\* at or past loopEnd, and no crossfade otherwise. A fade outcome writes the
\* whole block without running the stretch engine and leaves the transport
\* where one jump to loopStart followed by the block's read puts it. No block
\* leaves crossfade state behind: loopCrossfadeActive stays false and
\* loopCrossfadePosition stays 0.
C20_OneLoopOutcomePerBlock ==
    [][/\ ~loopCrossfadeActive' /\ loopCrossfadePosition' = 0
       /\ LoopBlock =>
            LET n == lastBlockSizeHint
                path == blk'.path
                reach == loopStartSec + Consumed(HeadSamples(path, n), LoopRatio)
            IN /\ path # "buffered"
               /\ (path = "xfade") <=> (Straddles(n) /\ FullCrossfade(n))
               /\ (path = "short") <=> (Straddles(n) /\ ~FullCrossfade(n))
               /\ (path = "late") <=> (~Straddles(n) /\ LateJump)
               /\ path \in LoopFades
                    => /\ blk'.gap = 0 /\ audioPc' = "idle"
                       /\ UNCHANGED << rbV, keylockPrimeSamplesRemaining >>
                       /\ reach < LengthInSeconds /\ playing'
                            => pos' = reach]_vars

\* a late-jump fade has just sent the transport back to loopStart
C20_Witness ==
    /\ blk.path = "late" /\ audioPc = "idle" /\ loopEnabled /\ playing
    /\ ~loopCrossfadeActive /\ loopCrossfadePosition = 0
    /\ loopStartSec <= pos /\ pos < loopEndSec

----------------------------------------------------------------------------
(* The two contexts: control calls while a block is being rendered *)

\* the audio context is inside getNextAudioBlock, past the exchange
InBlock == audioPc = "claimed"

\* the block in flight renders through the stretch engine
UsesEngine ==
    /\ InBlock /\ ~(forceSilent \/ softPaused) /\ playing
    /\ LoopPath(lastBlockSizeHint) = "none" /\ StretchPath # "plain"

\* a step of the control context taken while the block is in flight
ControlStepInBlock == InBlock /\ audioPc' = "claimed"

\* C21 as stated: while a block that uses the stretch engine is in flight, no
\* step of the control context (setKeylockQuality, applyLoadedSource,
\* releaseResources) rebuilds or releases the engine: the engine and its
\* processing state stay as the block found them until the block returns.
C21_EngineStableDuringBlock ==
    [][ControlStepInBlock /\ UsesEngine => UNCHANGED rbV]_vars

----------------------------------------------------------------------------
(* The EQ, filter and meter in focus: knob moves between blocks that run   *)
(* through the stretch engine                                              *)

KnobMoves == {0, 3, 50}

NextDsp ==
    \/ PrepareToPlay(64)
    \/ ApplyLoadedSource("short")
    \/ Start
    \/ SetSpeed(2 * Unit)
    \/ SetKeylockEnabled(TRUE)
    \/ \E v \in KnobMoves : SetHighGain(v)
    \/ SetFilterCutoff(50)
    \/ BlockBegin(64)
    \/ BlockRender

SpecDsp == Init /\ [][NextDsp]_vars

----------------------------------------------------------------------------
(* Properties of the EQ, filter and meter stage *)

\* a block rendered while playing that is neither silenced nor consumed by a
\* loop fade
NormalBlock ==
    /\ RenderStep /\ ~(forceSilent \/ softPaused) /\ playing
    /\ LoopPath(lastBlockSizeHint) = "none"

\* the step moved both meters towards the level of some block content
Metered ==
    \E db \in DbInputs :
        /\ leftChannelLevel' = Smooth(leftChannelLevel, LevelPercent(db[1]))
        /\ rightChannelLevel' = Smooth(rightChannelLevel, LevelPercent(db[2]))

\* C22 as stated: every block rendered while playing through the normal path
\* ends with the metering step, whatever the EQ gains and the filter knob
\* are: both smoothed levels are updated from the block and stay in [0, 100].
C22_EveryNormalBlockMetered ==
    [][NormalBlock
         => /\ Metered
            /\ leftChannelLevel' \in 0..100 /\ rightChannelLevel' \in 0..100]_vars

\* the block in flight runs the high shelf / the filter on its audio
HighShelfRuns == NormalBlock /\ ReachesDsp(blk'.path) /\ Abs(highGain) > EqThreshold
FilterRuns == NormalBlock /\ ReachesDsp(blk'.path) /\ needsFilter

\* C23 as stated: a knob value written before a block starts is the value that
\* block renders with: a block that runs the high shelf (the filter) does so
\* with coefficients derived from the high gain (the filter position) it
\* found when it started, unless the knob was written again meanwhile.
C23_BlockUsesLatestWrite ==
    [][/\ HighShelfRuns /\ knobsAtEntry[1] = highGain
            => lastHighGain' = highGain
       /\ FilterRuns /\ knobsAtEntry[4] = filterKnob
            => lastFilterKnob' = filterKnob]_vars

----------------------------------------------------------------------------
(* The analyzer's section selection in focus: every whole number of        *)
(* seconds up to MaxDuration, and the half seconds between                 *)

MaxDuration == 300

ScanDurations == { (k * SampleRate) \div 2 : k \in 1..(2 * MaxDuration) }

NextScan == \E d \in ScanDurations : CreateScanSections(d)

SpecScan == Init /\ [][NextScan]_vars

\* the section count the three strategies are described with
ExpectedSections(totalDuration) ==
    IF totalDuration <= Seconds(90) THEN 4
    ELSE IF totalDuration <= Seconds(240) THEN 5 ELSE 6

\* a section lies inside the analysed audio
WellFormed(section, totalDuration) ==
    0 <= section.start /\ section.start < section.end
      /\ section.end <= totalDuration

\* C24 as stated: section selection returns four windows for every duration
\* up to 90 s, five for every duration in (90, 240] s and six for every
\* longer one, each with 0 <= start < end <= duration.
C24_SectionCountByLength ==
    analysisDuration > 0
      => /\ Len(sections) = ExpectedSections(analysisDuration)
         /\ \A i \in 1..Len(sections) : WellFormed(sections[i], analysisDuration)

----------------------------------------------------------------------------
(* The analyzer's tempo vote in focus: beat trains of a fixed period, with *)
(* every second beat late by a jitter, under section qualities 0 to 150    *)

MaxBeats == 16

BeatPeriods == {140, 300, 320, 1000}
Jitters == {0, 20}
SectionQualities == {0, 10, 500, 1500}

BeatTrain(period, jitter, n) ==
    [i \in 1..n |-> (i - 1) * period + (IF i % 2 = 0 THEN jitter ELSE 0)]

NextBpm ==
    \E period \in BeatPeriods, jitter \in Jitters, n \in 4..MaxBeats,
       q \in SectionQualities :
        AnalyzePreciseBPM(BeatTrain(period, jitter, n), q)

SpecBpm == Init /\ [][NextBpm]_vars

\* a train of at least six beats, half a second apart
HalfSecondTrain ==
    /\ Len(tempoBeats) >= MinBeats
    /\ \A i \in 1..(Len(tempoBeats) - 1) :
         tempoBeats[i + 1] - tempoBeats[i] = SampleRate \div 2

\* no candidate has more votes than c
TopVoted(c) ==
    \A d \in DOMAIN tempoCandidates : tempoCandidates[d] <= tempoCandidates[c]

\* C25 as stated: for at least six beats 0.5 s apart the candidate with the
\* most votes is 120 +- 0.5 BPM whatever the section quality is, and every
\* candidate lies in [40, 260] BPM.
C25_SteadyTrainVotes120 ==
    HalfSecondTrain
      => /\ \E c \in DOMAIN tempoCandidates :
              /\ c >= 120 * Unit - 50 /\ c <= 120 * Unit + 50
              /\ TopVoted(c)
         /\ \A c \in DOMAIN tempoCandidates : MinBpm <= c /\ c <= MaxBpm

----------------------------------------------------------------------------
(* The audio across the loop seam *)

\* the samples of the head read (startBuffer) that reach the output of a
\* full-crossfade block: those faded in, then the remainder of the block
HeadWritten(n) == CrossfadeLength(n) + Max(0, n - SamplesToLoopEnd(n))

\* a block that takes the full equal-power crossfade
FullCrossfadeBlock == LoopBlock /\ blk'.path = "xfade"

\* C26 as stated: in a full-crossfade block the head samples written are the
\* source samples from loopStart on, in order, and the transport is left at
\* the source position directly following the last head sample written, so
\* the next block neither skips nor repeats a source sample.
C26_TransportFollowsHeadWritten ==
    [][FullCrossfadeBlock
         => LET n == lastBlockSizeHint
                next == loopStartSec + Consumed(HeadWritten(n), LoopRatio)
            IN next < LengthInSeconds /\ playing' => pos' = next]_vars

----------------------------------------------------------------------------
(* start() and the scratch gesture *)

\* the deck is audibly playing: transport running, not soft-paused
Audible == readerTrack # "none" /\ playing /\ ~softPaused /\ ~forceSilent

\* start() would rewind: the position is within 0.1 s of the end
AtEnd == pos * 10 >= LengthInSeconds * 10 - SampleRate

\* C27 as stated: start() on a deck that is audibly playing (and not at the
\* end of the track) leaves the transport position unchanged: the pause
\* position of an earlier stop() is not used again.
C27_StartWhilePlayingKeepsPosition ==
    [][Start /\ Audible /\ ~AtEnd => pos' = pos]_vars

----------------------------------------------------------------------------
(* QtMainWindow: the scratch gesture on deck A's overview. The waveform    *)
(* emits scratchStart on the press and scratchEnd on the release           *)

\* isPlaying(): the transport's flag, whatever the soft pause says
isPlaying == playing

\* what the calls of a scratch handler leave unchanged in the player
ScratchFrame ==
    UNCHANGED << readerTrack, klV, klHist, rbV, rbQuality,
                 keylockPrimeSamplesRemaining, resampleRatio, teardown,
                 crossfadeVars, dspVars, knobsAtEntry, analyzerVars, devV,
                 audioV, paramVars, loopVars, quantVars, deckVars,
                 analysisActiveA, analysisFailedA, detectedBpm, bpmA,
                 tempoFactorA, statusTip, gridVars, taskVars, loadMark,
                 lastQuant, lastPadQuant >>

\* enableScratch(enable) followed by start(): start() cancels the reset that
\* enableScratch asked for, if there is a track
ScratchThenStart(enable) ==
    /\ scratchMode' = enable
    /\ IF readerTrack # "none"
       THEN /\ pos' = StartPos
            /\ pausedPosSec' = IF AtEnd THEN 0 ELSE pausedPosSec
            /\ looping' = TRUE
            /\ softPaused' = FALSE /\ forceSilent' = FALSE
            /\ pausedResetPending' = FALSE
            /\ playing' = TRUE
       ELSE /\ pausedResetPending' = TRUE
            /\ UNCHANGED << pos, pausedPosSec, looping, softPaused, forceSilent,
                            playing >>
    /\ stopMark' = IF readerTrack # "none" /\ stopMark.phase = "stopped"
                   THEN [stopMark EXCEPT !.phase = "resumed"] ELSE NoMark

\* enableScratch(enable) alone
ScratchOnly(enable) ==
    /\ scratchMode' = enable
    /\ pausedResetPending' = TRUE
    /\ UNCHANGED << pos, pausedPosSec, looping, softPaused, forceSilent,
                    playing, stopMark >>

\* enableScratch(enable) followed by stop()
ScratchThenStop(enable) ==
    /\ scratchMode' = enable
    /\ softPaused' = TRUE
    /\ pausedPosSec' = StopRecords
    /\ pausedResetPending' = TRUE
    /\ stopMark' = [phase |-> "stopped", p |-> pos]
    /\ UNCHANGED << pos, looping, forceSilent, playing >>

\* the scratchStart handler
ScratchStart ==
    /\ ~scratchMode
    /\ scratchWasPlayingA' = isPlaying
    /\ IF ~isPlaying THEN ScratchThenStart(TRUE) ELSE ScratchOnly(TRUE)
    /\ ScratchFrame

\* the scratchEnd handler
ScratchEnd ==
    /\ scratchMode
    /\ IF scratchWasPlayingA THEN ScratchThenStart(FALSE)
       ELSE ScratchThenStop(FALSE)
    /\ ScratchFrame /\ UNCHANGED scratchWasPlayingA

ScratchMoves == {0, 50}

NextScratch ==
    \/ PrepareToPlay(64)
    \/ ApplyLoadedSource("short")
    \/ Start
    \/ Stop
    \/ ScratchStart
    \/ \E absRel \in ScratchMoves : SetPositionRelative(absRel)
    \/ ScratchEnd
    \/ BlockBegin(64)
    \/ BlockRender

SpecScratch == Init /\ [][NextScratch]_vars

\* C28 as stated: a scratch gesture restores the prior play state. The
\* gesture remembers whether the deck was audibly playing when it began,
\* the deck is not soft-paused while the gesture lasts, and when it ends the
\* deck is audibly playing if it was before and soft-paused if it was not.
C28_ScratchRestoresPlayState ==
    /\ [][ScratchStart /\ readerTrack # "none"
            => scratchWasPlayingA' = Audible /\ ~softPaused']_vars
    /\ [][ScratchEnd /\ readerTrack # "none"
            => IF scratchWasPlayingA THEN Audible' ELSE softPaused']_vars

----------------------------------------------------------------------------
(* QtDeckWidget: the status timer's syncPlayState                          *)

\* the text syncPlayState leaves on the play button of a deck with a file
SyncedText(actuallyPlaying) ==
    LET uiShowsPlaying == playPauseBtn.text = "Pause"
        shown == IF actuallyPlaying THEN "Pause" ELSE "Play"
        first == IF actuallyPlaying # uiShowsPlaying
                 THEN shown ELSE playPauseBtn.text
    IN IF actuallyPlaying # deckPlaying THEN shown ELSE first

\* syncPlayState() on a tick that updates the play state (every 50th tick,
\* later than 500 ms after a press of play): the UI follows isPlaying() and
\* the player is not called
SyncPlayState ==
    /\ playPauseBtn.text # "Loading..."
    /\ LET actuallyPlaying == isPlaying
       IN IF currentFilePath = ""
          THEN /\ playPauseBtn' = [playPauseBtn EXCEPT !.text = "Load File"]
               /\ deckPlaying' = FALSE
          ELSE /\ playPauseBtn' =
                    [playPauseBtn EXCEPT !.text = SyncedText(actuallyPlaying)]
               /\ deckPlaying' = actuallyPlaying
    /\ UNCHANGED << playerVars, currentFilePath, loadBtn, winVars, gridVars,
                    taskVars, loadMark, lastQuant, lastPadQuant >>

NextSync ==
    \/ \E f \in DropInputs : DeckLoadFile(f)
    \/ OnUnload
    \/ OnPlayPause
    \/ SyncPlayState
    \/ LoadTaskRun
    \/ AnalysisBegin
    \/ AnalysisFinish
    \/ LoadApplied
    \/ LoadFailed
    \/ AnalysisStarted
    \/ AnalysisResult

SpecSync == Init /\ [][NextSync]_vars

\* the deck as play/pause leaves it when it pauses: soft-paused, the UI flag
\* off and the button offering Play
PausedByUser ==
    /\ currentFilePath # "" /\ softPaused
    /\ ~deckPlaying /\ playPauseBtn = Button("Play", TRUE)

\* C29 as stated: a deck paused with play/pause keeps its paused UI (flag
\* and button text) across the ticks of syncPlayState, which do not call
\* the transport, and the next press of play/pause on it calls start(), so
\* that the deck is audibly playing again.
C29_PausedUiSurvivesSync ==
    [][/\ (SyncPlayState /\ PausedByUser
             => PausedByUser' /\ UNCHANGED playerVars)
       /\ (OnPlayPause /\ softPaused /\ playPauseBtn.text # "Loading..."
             => Audible')]_vars

----------------------------------------------------------------------------
(* Several load requests for one deck: a drop on the deck or a pick in the *)
(* library calls loadFile while an earlier AudioFileLoadTask is still in   *)
(* the pool, whose threads finish in any order                             *)

MaxLoads == 2

\* dropEvent() / the library's load while the deck is loading: loadFile(path)
DropWhileLoading(path) ==
    /\ \E t \in poolTasks : t.kind = "load"
    /\ Cardinality(poolTasks) < MaxLoads
    /\ Task("load", path, "queued") \notin poolTasks
    /\ loadFile(path)
    /\ loadMark' = IF Decodable(path) THEN NoLoadMark
                   ELSE [phase |-> "requested", file |-> path,
                         before |-> DeckView]
    /\ UNCHANGED << playerVars, winVars, gridVars, mainQueue,
                    lastQuant, lastPadQuant >>

LoadInputs == {"full", "clip"}

NextLoads ==
    \/ \E f \in LoadInputs : DeckLoadFile(f)
    \/ \E f \in LoadInputs : DropWhileLoading(f)
    \/ OnUnload
    \/ OnPlayPause
    \/ LoadTaskRun
    \/ AnalysisBegin
    \/ AnalysisFinish
    \/ LoadApplied
    \/ AnalysisStarted
    \/ AnalysisResult

SpecLoads == Init /\ [][NextLoads]_vars

\* every AudioFileLoadTask of the deck has run and its posted call was made
LoadsCompleted ==
    /\ \A t \in poolTasks : t.kind # "load"
    /\ \A i \in 1..Len(mainQueue) :
          mainQueue[i].call \notin {"loaded", "loadFailed"}

\* C30 as stated: once every load task issued for the deck has completed,
\* in whatever order, the source in the player is the file of the most
\* recent request (currentFilePath), and the deck has left its loading
\* state with the play and load buttons enabled.
C30_LastRequestWins ==
    LoadsCompleted /\ currentFilePath # ""
        => /\ readerTrack = currentFilePath
           /\ playPauseBtn.text # "Loading..." /\ playPauseBtn.enabled
           /\ loadBtn.text # "Loading..." /\ loadBtn.enabled

====
